---- MODULE Spec2Model ----
(***************************************************************************)
(* A model of the acquisition pipeline of the TKML launcher:               *)
(*   services/cache_service.py     CacheService                            *)
(*   services/download_service.py  DownloadService (download_file_sync,    *)
(*                                 download_multiple_files)                *)
(*   core/build_manager.py         BuildManager (create_build and the      *)
(*                                 build-state table)                      *)
(* The specifications share the variables below:                           *)
(*   SpecTransport  one download_file_sync call                            *)
(*   SpecMulti      one download_multiple_files call over a worker pool    *)
(*   SpecBuild      a sequence of create_build calls                       *)
(*   SpecPool       the DownloadService singleton and its pool size        *)
(*   SpecRules      one _is_library_needed call                            *)
(*   SpecCache      a sequence of CacheService calls over time             *)
(*   SpecStates     threads calling into the build-state table             *)
(*   SpecDelete     one delete_build call                                  *)
(*   SpecCacheRace  threads calling CacheService on one key                *)
(*   SpecRace       build workers downloading the same game version        *)
(*   SpecEdges      set_build_state and clear_build_state calls in turn    *)
(*   SpecLaunch     one launch_selected_build call (ui/tabs/               *)
(*                  installations_tab.py)                                  *)
(*   SpecProfiles   build workers writing launcher_profiles.json           *)
(***************************************************************************)
EXTENDS Integers, Sequences, FiniteSets, TLC

\* ------------------------------------------------------------- bounds
\* longest byte blob (a response body, a cached blob, a file)
MaxBlob == 2
\* most (url, dest) pairs handed to download_multiple_files
MaxFiles == 2
\* most create_build calls made one after another
MaxCalls == 2
\* largest worker pool (download_threads) tried
MaxWorkers == 2
\* most threads calling into the build-state table at once
MaxThreads == 2
\* longest "rules" list of a library
MaxRules == 2
\* most CacheService calls in a row, and most steps of the clock among them
MaxOps == 3
MaxTicks == 2
\* most calls one thread makes into the build-state table
MaxStateCalls == 2
\* libraries (and conditional JVM arguments) in a version JSON
MaxLibs == 2
\* game arguments in a version JSON
MaxArgs == 4

\* -------------------------------------------------- program constants
max_retries == 3
retry_delay == 3
default_ttl == 3600
default_download_threads == 8

\* --------------------------------------------------------------- data
Bytes == {1, 2}
Blobs == UNION {[1..n -> Bytes] : n \in 0..MaxBlob}
Prefix(b, n) == SubSeq(b, 1, n)
\* the response bodies tried: one of each length
Bodies == {[i \in 1..n |-> 1] : n \in 0..MaxBlob}

\* Urls double as cache keys (download_file_sync: key = url).
Urls == 1..MaxFiles
Paths == 1..MaxFiles
\* Thread 0 is a direct caller of download_file_sync; threads 1..MaxFiles
\* are the pool's futures, one per submitted pair.
Caller == 0
Items == 1..MaxFiles
Threads == {Caller} \cup Items

NoFile == [exists |-> FALSE, data |-> <<>>]
File(b) == [exists |-> TRUE, data |-> b]
NoEntry == [exists |-> FALSE, data |-> <<>>, mtime |-> 0]
Entry(b, t) == [exists |-> TRUE, data |-> b, mtime |-> t]

VARIABLES
  fs,       \* the destination files: path -> File
  cache,    \* the cache directory: key -> cache file (bytes, st_mtime)
  now,      \* time.time()
  body,     \* what the server holds at each url
  dfs,      \* per thread: the frame of its download_file_sync call
  files,    \* download_multiple_files: the (url, dest) pairs given
  cbs,      \* download_multiple_files: the callbacks given
  max_workers, \* DownloadService.max_workers
  fut,      \* per pair: its future in the ThreadPoolExecutor
  mf,       \* the frame of the download_multiple_files call
  cfg,      \* create_build: build_config, and what the servers hold for it
  bld,      \* the frame of the create_build call
  dirs,     \* the directories that exist under the launcher's root
  profiles, \* launcher_profiles.json: profile key -> lastVersionId
  build_states, \* BuildManager.build_states
  config,   \* ConfigManager.config, as far as DownloadService reads it
  lib,      \* the frame of an _is_library_needed call
  cop,      \* the frame of the last CacheService call
  state_lock, \* BuildManager._state_lock: its holder, or None
  thr,      \* per thread: the frame of its call on the state table
  committed, \* history: the state table as the last release of the lock left it
  dlt,      \* the frame of a delete_build call
  cthr,     \* per thread: the frame of its CacheService call
  wk,       \* per build worker: the frame of its _download_minecraft_version call
  lch,      \* the frame of a launch_selected_build call
  lp        \* launcher_profiles.json and the _create_launch_profile frames

transportVars == <<fs, cache, now, body, dfs>>
multiVars == <<files, cbs, max_workers, fut, mf>>
callVars == <<config, lib, cop>>
lockVars == <<state_lock, thr, committed>>
sideVars == <<dlt, cthr, wk, lch, lp>>
buildVars == <<cfg, bld, dirs, profiles, build_states, callVars, lockVars, sideVars>>
vars == <<fs, cache, now, body, dfs, files, cbs, max_workers, fut, mf,
          cfg, bld, dirs, profiles, build_states, config, lib, cop,
          state_lock, thr, committed, dlt, cthr, wk, lch, lp>>

\* ----------------------------------------------------------- CacheService
\* ttl = ttl or self.default_ttl : None and 0 are both falsy.
None == -1
EffTtl(ttl) == IF ttl = None \/ ttl = 0 THEN default_ttl ELSE ttl

Expired(e, ttl, t) == (t - e.mtime) > EffTtl(ttl)

\* CacheService.has : the value returned
CacheHas(c, k, ttl, t) == c[k].exists /\ ~Expired(c[k], ttl, t)

\* CacheService.has : the cache directory afterwards (lazy eviction)
CacheAfterHas(c, k, ttl, t) ==
  IF c[k].exists /\ Expired(c[k], ttl, t) THEN [c EXCEPT ![k] = NoEntry] ELSE c

\* CacheService.get : the bytes returned (None as a missing entry)
CacheGet(c, k, ttl, t) == IF CacheHas(c, k, ttl, t) THEN File(c[k].data) ELSE NoFile

\* (mutant) the bytes are replaced but st_mtime of an existing file is kept
CacheSet_keepsMtime(c, k, data, t) ==
  [c EXCEPT ![k] = Entry(data, IF c[k].exists THEN c[k].mtime ELSE t)]

\* CacheService.set
CacheSet(c, k, data, t) == [c EXCEPT ![k] = Entry(data, t)]

\* CacheService.clear
CacheClear(c) == [k \in DOMAIN c |-> NoEntry]

\* CacheService.cleanup(max_age_seconds)
CacheCleanup(c, max_age_seconds, t) ==
  [k \in DOMAIN c |->
     IF c[k].exists /\ (t - c[k].mtime) > EffTtl(max_age_seconds) THEN NoEntry ELSE c[k]]

\* -------------------------------------------------- download_file_sync
IdleFrame ==
  [pc |-> "idle", url |-> 1, dest |-> 1, use_cache |-> FALSE, has_cb |-> FALSE,
   attempt |-> 0, result |-> FALSE, hit |-> FALSE, trace |-> <<>>, progress |-> <<>>,
   rec |-> FALSE, pre |-> FALSE, had |-> FALSE, had_data |-> <<>>]

\* The frame at the call. trace, hit, pre, had and had_data are history: the
\* requests and sleeps made so far (kept for a call with rec set), whether
\* the cache short cut was taken, whether dest existed at the call, and the
\* unexpired cache entry of the url at the call.
CallFrame(u, d, uc, cb, rec, fsys, c, t) ==
  [IdleFrame EXCEPT !.pc = "start", !.url = u, !.dest = d, !.use_cache = uc, !.has_cb = cb,
                    !.rec = rec,
                    !.pre = fsys[d].exists,
                    !.had = CacheHas(c, u, None, t),
                    !.had_data = IF CacheHas(c, u, None, t) THEN c[u].data ELSE <<>>]

\* `if data:` : None and b"" are both falsy
Truthy(f) == f.exists /\ Len(f.data) > 0

\* int(downloaded * 100 / total), once per chunk written (a chunk is a byte here)
Percents(n, total) == [i \in 1..n |-> (i * 100) \div total]

\* int(r.headers.get('content-length', 0)): what the server declares, read
\* only to report progress
Declared(f) == IF f.has_cb THEN 0..MaxBlob ELSE {0}

ReportChunks(f, n, total) ==
  IF f.has_cb /\ total # 0 THEN f.progress \o Percents(n, total) ELSE f.progress

Report(f, p) == IF f.has_cb THEN Append(f.progress, p) ELSE f.progress

\* trace entries: a request (did the attempt succeed, how many bytes reached
\* dest, -1 when dest was never opened) and a sleep (of how many seconds)
GetEvent(ok, n) == [ev |-> "get", ok |-> ok, n |-> n, secs |-> 0]
SleepEvent(s) == [ev |-> "sleep", ok |-> TRUE, n |-> 0, secs |-> s]
Traced(f, e) == IF f.rec THEN Append(f.trace, e) ELSE f.trace

\* (mutant) the partial file is left in place
Unlink_keeps(fsys, p) == fsys

\* dest.unlink() under `if dest.exists()`
Unlink(fsys, p) == [fsys EXCEPT ![p] = NoFile]

\* (mutant) one round too many
RetryLeft_offByOne(attempt) == attempt <= max_retries

\* `if attempt < max_retries` : sleep and go round again
RetryLeft(attempt) == attempt < max_retries

\* lines 35-44: the cache-first short cut
DfsCacheFirst(t) ==
  LET f == dfs[t]
      hasKey == f.use_cache /\ CacheHas(cache, f.url, None, now)
      data == CacheGet(cache, f.url, None, now)
  IN /\ f.pc = "start"
     /\ cache' = IF f.use_cache THEN CacheAfterHas(cache, f.url, None, now) ELSE cache
     /\ IF hasKey /\ Truthy(data)
        THEN /\ fs' = [fs EXCEPT ![f.dest] = File(data.data)]
             /\ dfs' = [dfs EXCEPT ![t] = [f EXCEPT !.pc = "returned", !.result = TRUE,
                                                   !.hit = TRUE,
                                                   !.progress = Report(f, 100)]]
        ELSE /\ fs' = fs
             /\ dfs' = [dfs EXCEPT ![t] = [f EXCEPT !.pc = "attempt", !.attempt = 1]]
     /\ UNCHANGED <<now, body>>

\* lines 53-88, an attempt that raises nothing: the body is streamed to dest,
\* stored in the cache, 100 is reported and True returned
DfsTryOk(t) ==
  LET f == dfs[t] IN
  /\ f.pc = "attempt"
  /\ \E total \in Declared(f) :
       LET n == Len(body[f.url])
           written == [fs EXCEPT ![f.dest] = File(body[f.url])]
       IN /\ fs' = written
          /\ cache' = IF f.use_cache
                      THEN CacheSet(cache, f.url, written[f.dest].data, now)
                      ELSE cache
          /\ dfs' = [dfs EXCEPT ![t] =
                 [f EXCEPT !.pc = "returned", !.result = TRUE,
                           !.trace = Traced(f, GetEvent(TRUE, n)),
                           !.progress = IF f.has_cb THEN Append(ReportChunks(f, n, total), 100)
                                        ELSE f.progress]]
  /\ UNCHANGED <<now, body>>

\* lines 54-56, an attempt that raises before dest is opened (connection
\* error, timeout, raise_for_status, a content-length that is no number)
DfsTryFailConnect(t) ==
  LET f == dfs[t] IN
  /\ f.pc = "attempt"
  /\ dfs' = [dfs EXCEPT ![t] = [f EXCEPT !.pc = "except",
                                        !.trace = Traced(f, GetEvent(FALSE, -1))]]
  /\ UNCHANGED <<fs, cache, now, body>>

\* lines 60-73, an attempt that raises while streaming: dest was opened 'wb'
\* (truncated) and n bytes of the body reached it
DfsTryFailStream(t) ==
  LET f == dfs[t] IN
  /\ f.pc = "attempt"
  /\ \E total \in Declared(f), n \in 0..Len(body[f.url]) :
       /\ fs' = [fs EXCEPT ![f.dest] = File(Prefix(body[f.url], n))]
       /\ dfs' = [dfs EXCEPT ![t] = [f EXCEPT !.pc = "except",
                                             !.trace = Traced(f, GetEvent(FALSE, n)),
                                             !.progress = ReportChunks(f, n, total)]]
  /\ UNCHANGED <<cache, now, body>>

\* lines 90-109: the except branch
DfsExcept(t) ==
  LET f == dfs[t] IN
  /\ f.pc = "except"
  /\ fs' = IF fs[f.dest].exists THEN Unlink(fs, f.dest) ELSE fs
  /\ IF RetryLeft(f.attempt)
     THEN dfs' = [dfs EXCEPT ![t] = [f EXCEPT !.pc = "sleep"]]
     ELSE dfs' = [dfs EXCEPT ![t] = [f EXCEPT !.pc = "returned", !.result = FALSE,
                                              !.progress = Report(f, -1)]]
  /\ UNCHANGED <<cache, now, body>>

\* line 103: time.sleep(retry_delay), then the next round of the for loop
DfsSleep(t) ==
  LET f == dfs[t] IN
  /\ f.pc = "sleep"
  /\ dfs' = [dfs EXCEPT ![t] = [f EXCEPT !.pc = "attempt", !.attempt = f.attempt + 1,
                                        !.trace = Traced(f, SleepEvent(retry_delay))]]
  /\ UNCHANGED <<fs, cache, now, body>>

DfsStep(t) ==
  \/ DfsCacheFirst(t)
  \/ DfsTryOk(t)
  \/ DfsTryFailConnect(t)
  \/ DfsTryFailStream(t)
  \/ DfsExcept(t)
  \/ DfsSleep(t)

\* ------------------------------------------- download_multiple_files
\* A callback is absent (None), returns, or may raise when it is called.
CbKinds == {"none", "returns", "raises"}
NoCallbacks == [progress |-> "none", log |-> "none"]

IdleMulti ==
  [pc |-> "idle", i |-> 0, successful_downloads |-> 0, failed_downloads |-> 0,
   result |-> FALSE, done |-> {}, calls |-> <<>>]

total_files == Len(files)
Submitted == {i \in Items : fut[i] # "none"}

\* download_single_file has returned: the future holds its result
Finished(i) == fut[i] = "running" /\ dfs[i].pc = "returned"
InFlight == {i \in Items : fut[i] = "running" /\ ~Finished(i)}
Pending == {i \in Items : fut[i] = "pending"}

\* (mutant) shutdown(wait=False)
Drained_nowait == TRUE

\* ThreadPoolExecutor.__exit__ : shutdown(wait=True) returns once every
\* submitted future has run to its end
Drained == \A i \in Submitted : Finished(i)

\* (mutant) True unless every download failed
AllSucceeded_some(failed) == failed < total_files

\* failed_downloads == 0
AllSucceeded(failed) == failed = 0

\* lines 122-123
MfEmpty ==
  /\ mf.pc = "start"
  /\ files = <<>>
  /\ mf' = [mf EXCEPT !.pc = "returned", !.result = TRUE]
  /\ UNCHANGED <<transportVars, files, cbs, max_workers, fut>>

\* lines 129-130: log_callback raises before the pool exists
MfFirstLogRaises ==
  /\ mf.pc = "start"
  /\ files # <<>>
  /\ cbs.log = "raises"
  /\ mf' = [mf EXCEPT !.pc = "raised"]
  /\ UNCHANGED <<transportVars, files, cbs, max_workers, fut>>

\* lines 125-145: the pool is entered and every pair is submitted
MfSubmit ==
  /\ mf.pc = "start"
  /\ files # <<>>
  /\ fut' = [i \in Items |-> IF i \in 1..total_files THEN "pending" ELSE "none"]
  /\ mf' = [mf EXCEPT !.pc = "loop"]
  /\ UNCHANGED <<transportVars, files, cbs, max_workers>>

\* a pool thread takes the oldest queued work item; there are at most
\* max_workers threads. download_single_file(file_info) calls
\* download_file_sync(url, dest_path): no progress callback, use_cache=True
WorkerStart(i) ==
  /\ fut[i] = "pending"
  /\ \A j \in Pending : i <= j
  /\ Cardinality(InFlight) < max_workers
  /\ fut' = [fut EXCEPT ![i] = "running"]
  /\ dfs' = [dfs EXCEPT ![i] =
               CallFrame(files[i].url, files[i].dest, TRUE, FALSE, FALSE, fs, cache, now)]
  /\ UNCHANGED <<fs, cache, now, body, files, cbs, max_workers, mf>>

\* A callback called: it returns, or (if it is one that raises) raises.
MayRaise(kind) == IF kind = "raises" THEN {FALSE, TRUE} ELSE {FALSE}

\* lines 148-175, one round of `for i, future in enumerate(as_completed(..))`
\* for the finished future of pair k. logRaises, progressRaises: the
\* callback of lines 156-168 raised; handlerRaises: log_callback(err_msg) of
\* line 174 raised, which leaves the loop and the with block.
MfCollect(k) ==
  /\ mf.pc = "loop"
  /\ Finished(k)
  /\ k \notin mf.done
  /\ \E logRaises \in MayRaise(cbs.log) :
     \E progressRaises \in MayRaise(cbs.progress) :
     \E handlerRaises \in MayRaise(cbs.log) :
       LET success == dfs[k].result
           current_file == mf.i + 1
           progressCalled == cbs.progress # "none" /\ ~logRaises
           raised == logRaises \/ (progressCalled /\ progressRaises)
           succ1 == mf.successful_downloads + (IF success THEN 1 ELSE 0)
           fail1 == mf.failed_downloads + (IF success THEN 0 ELSE 1)
           fail2 == IF raised THEN fail1 + 1 ELSE fail1
       IN /\ (handlerRaises => raised)
          /\ (progressRaises => progressCalled)
          /\ mf' = [mf EXCEPT
                      !.i = mf.i + 1,
                      !.done = mf.done \cup {k},
                      !.successful_downloads = succ1,
                      !.failed_downloads = fail2,
                      !.calls = IF progressCalled
                                THEN Append(mf.calls, [current |-> current_file,
                                                       total |-> total_files])
                                ELSE mf.calls,
                      !.pc = IF raised /\ handlerRaises THEN "unwinding" ELSE "loop"]
  /\ UNCHANGED <<transportVars, files, cbs, max_workers, fut>>

\* lines 176-181: as_completed is exhausted, the with block is left, the
\* totals are logged (the callback may raise) and failed_downloads == 0 is
\* returned
MfReturn ==
  /\ mf.pc = "loop"
  /\ mf.done = Submitted
  /\ Drained
  /\ \E logRaises \in MayRaise(cbs.log) :
       mf' = IF logRaises
             THEN [mf EXCEPT !.pc = "raised"]
             ELSE [mf EXCEPT !.pc = "returned",
                             !.result = AllSucceeded(mf.failed_downloads)]
  /\ UNCHANGED <<transportVars, files, cbs, max_workers, fut>>

\* an exception leaves the with block: __exit__ waits for the pool, then the
\* exception reaches the caller
MfUnwind ==
  /\ mf.pc = "unwinding"
  /\ Drained
  /\ mf' = [mf EXCEPT !.pc = "raised"]
  /\ UNCHANGED <<transportVars, files, cbs, max_workers, fut>>

\* ----------------------------------------------------------- BuildManager
BuildStatus == {"ready", "downloading", "installing", "error", "unknown"}
UnknownState == [status |-> "unknown", progress |-> 0, message |-> ""]

set_build_state(tbl, build_name, status, progress, message) ==
  [n \in DOMAIN tbl \cup {build_name} |->
     IF n = build_name
     THEN [status |-> status, progress |-> progress, message |-> message]
     ELSE tbl[n]]

get_build_state(tbl, build_name) ==
  IF build_name \in DOMAIN tbl THEN tbl[build_name] ELSE UnknownState

clear_build_state(tbl, build_name) == [n \in DOMAIN tbl \ {build_name} |-> tbl[n]]

Loaders == {"Vanilla", "Fabric", "Quilt", "Forge", "NeoForge", "Paper", "Purpur"}
ProfileLoaders == {"Fabric", "Quilt"}
InstallerLoaders == {"Forge", "NeoForge"}
ServerLoaders == {"Paper", "Purpur"}

\* The urls a build fetches and the files it writes. One library of the
\* version (and of the loader profile) passes _is_library_needed and
\* declares an artifact; the asset index lists one object.
BuildUrls == {"manifest", "version_json", "lib", "client", "asset_index", "asset",
              "loader_profile", "loader_lib", "installer", "server_jar"}
BuildPaths == {"tmp_manifest", "tmp_version", "version_json", "lib", "client_jar",
               "asset_index", "asset", "tmp_profile", "loader_profile", "loader_lib",
               "installer", "server_jar", "instance_cfg"}

\* versions/<minecraft_version>
VersionDir == "versions/mc"
\* versions/<family>-loader-<loader_version>-<minecraft_version> (Fabric,
\* Quilt), versions/<family>-<minecraft_version>-<build> (Paper, Purpur)
LoaderDir(loader) ==
  IF loader \in ProfileLoaders THEN "versions/family-loader-lv-mc"
  ELSE "versions/family-mc-build"
\* version_id = f"{loader.lower()}-{loader_version}-{minecraft_version}"
LoaderVersionId(loader) == "versions/family-lv-mc"

\* A rule is {"action": ..., "os": {"name": ..., "arch": ...}}; NoKey stands
\* for a key that is absent.
NoKey == ""

\* rule.get("action", "allow")
Action(rule) == IF rule.action = NoKey THEN "allow" ELSE rule.action

\* library.get("rules", [])
Rules(library) == IF library.has_rules THEN library.rules ELSE <<>>

Undecided == "undecided"
Needed == "needed"
NotNeeded == "not needed"

\* (mutant) a rule for another OS or architecture decides nothing
Keyed_matchOnly(action, match) ==
  IF ~match THEN Undecided
  ELSE IF action = "allow" THEN Needed
  ELSE IF action = "disallow" THEN NotNeeded
  ELSE Undecided

\* lines 338-349 and 357-366: the four returns under one key
Keyed(action, match) ==
  IF action = "allow" THEN (IF match THEN Needed ELSE NotNeeded)
  ELSE IF action = "disallow" THEN (IF match THEN NotNeeded ELSE Needed)
  ELSE Undecided

\* lines 332-366: the body of the loop for one rule. The OS block returns
\* before the architecture block is reached.
RuleOutcome(rule, current_os, current_arch) ==
  LET by_os == IF rule.name # NoKey
               THEN Keyed(Action(rule), rule.name = current_os)
               ELSE Undecided
      by_arch == IF rule.arch # NoKey
                 THEN Keyed(Action(rule), current_arch = rule.arch)
                 ELSE Undecided
  IN IF by_os # Undecided THEN by_os ELSE by_arch

RECURSIVE LoopRules(_, _, _)
\* lines 331-369: the first rule that returns decides; True at the end
LoopRules(rules, current_os, current_arch) ==
  IF rules = <<>> THEN TRUE
  ELSE LET o == RuleOutcome(Head(rules), current_os, current_arch)
       IN IF o # Undecided THEN o = Needed
          ELSE LoopRules(Tail(rules), current_os, current_arch)

\* _is_library_needed(library, current_os), with platform.machine().lower()
is_library_needed(library, current_os, current_arch) ==
  IF Rules(library) = <<>> THEN TRUE
  ELSE LoopRules(Rules(library), current_os, current_arch)

\* The library a Fabric or Quilt profile lists: one without rules, or one
\* allowed on another OS than the one the launcher runs on. Both declare
\* an artifact with url and path.
BuildOs == "linux"
BuildArch == "amd64"
AnyOsLibrary == [has_rules |-> FALSE, rules |-> <<>>, artifact |-> TRUE]
OtherOsLibrary ==
  [has_rules |-> TRUE, rules |-> <<[action |-> "allow", name |-> "windows", arch |-> NoKey]>>,
   artifact |-> TRUE]

IdleBuild ==
  [pc |-> "idle", result |-> FALSE, calls |-> 0, requested |-> {}, reported |-> {},
   reentry |-> FALSE, failed_at |-> "", elapsed |-> FALSE, failed |-> {},
   write_failed |-> FALSE]

StrIdle == [IdleFrame EXCEPT !.url = "", !.dest = ""]

NoBuild ==
  /\ cfg = [name |-> "", loader |-> "Vanilla", in_manifest |-> FALSE, has_cb |-> FALSE,
            faulty |-> "none", profile_library |-> AnyOsLibrary]
  /\ bld = IdleBuild
  /\ dirs = {}
  /\ profiles = <<>>
  /\ build_states = <<>>

\* what the progress callback was given by a download_file_sync call
Reported(f) == {f.progress[i] : i \in 1..Len(f.progress)}
\* the url a download_file_sync call requested from the network
NetUrls(f) == IF f.hit THEN {} ELSE {f.url}
NetUrlsMulti == {files[i].url : i \in {j \in 1..total_files : ~dfs[j].hit}}

\* progress_wrapper: 25 + int((current / total) * 10)
LibPercent(current, total) == 25 + (current * 10) \div total
\* asset_progress_wrapper: int((current / total) * 100)
AssetPercent(current, total) == (current * 100) \div total

Notify(ps) == IF cfg.has_cb THEN bld.reported \cup ps ELSE bld.reported

\* (mutant) every library is submitted
Submittable_all(library) == TRUE

\* _download_libraries lines 393-410: the library passes _is_library_needed
\* and declares an artifact with url and path
Submittable(library) ==
  is_library_needed(library, BuildOs, BuildArch) /\ library.artifact

\* _download_libraries lines 391-416: files_to_download
files_to_download(libraries, url, path) ==
  LET kept == SelectSeq(libraries, Submittable)
  IN [i \in 1..Len(kept) |-> [url |-> url, dest |-> path]]

\* every file a successful build of cfg leaves on disk
TargetsExist ==
  /\ \A p \in {"version_json", "lib", "client_jar", "asset_index", "asset", "instance_cfg"} :
       fs[p].exists
  /\ cfg.name \in DOMAIN profiles
  /\ cfg.loader \in ProfileLoaders =>
       /\ fs["loader_profile"].exists
       /\ Submittable(cfg.profile_library) => fs["loader_lib"].exists
  /\ cfg.loader \in InstallerLoaders => fs["installer"].exists
  /\ cfg.loader \in ServerLoaders => fs["server_jar"].exists

\* DownloadService().download_file_sync(url, dest, progress_callback)
Fetch(u, d, with_cb) ==
  dfs' = [dfs EXCEPT ![Caller] = CallFrame(u, d, TRUE, with_cb /\ cfg.has_cb, FALSE,
                                           fs, cache, now)]
FetchOver == dfs[Caller].pc = "returned"

\* download_service.download_multiple_files(files_to_download, ...)
FetchAll(fl, c) ==
  /\ files' = fl
  /\ cbs' = c
  /\ fut' = [i \in Items |-> "none"]
  /\ mf' = [IdleMulti EXCEPT !.pc = "start"]
  /\ dfs' = [t \in Threads |-> StrIdle]
FetchAllOver == mf.pc = "returned"

BuildFrameVars == <<cache, now, body, cfg, max_workers, build_states, callVars, lockVars,
                    sideVars>>
NoMulti == UNCHANGED <<files, cbs, fut, mf>>

\* the urls whose fetch, awaited at this point of the call, came back False
FailedNow ==
  IF bld.pc \in {"libs", "assets", "loader_libs"}
  THEN {files[i].url : i \in {j \in 1..total_files :
                                dfs[j].pc = "returned" /\ ~dfs[j].result}}
  ELSE IF /\ bld.pc \in {"manifest", "version_info", "client", "asset_index",
                          "loader_profile", "installer"}
          /\ dfs[Caller].pc = "returned"
          /\ ~dfs[Caller].result
       THEN {dfs[Caller].url}
       ELSE {}

\* create_build returns False (lines 116-119, 131-134): nothing is reported
ReturnFalse(at, req, rep) ==
  bld' = [bld EXCEPT !.pc = "returned", !.result = FALSE, !.failed_at = at,
                   !.requested = req, !.reported = rep,
                   !.failed = bld.failed \cup FailedNow]

Goto(pc, req, rep) ==
  bld' = [bld EXCEPT !.pc = pc, !.requested = req, !.reported = rep,
                   !.failed = bld.failed \cup FailedNow]

\* The callbacks handed to create_build: ones that return, a log_callback
\* that raises on every call, or a progress_callback that raises on every
\* call.
Faults == {"none", "log", "progress"}

\* lines 80-114: a create_build(cfg) call starts; the instance directory and
\* its .minecraft are made
CbCall ==
  /\ bld.pc \in {"idle", "returned"}
  /\ bld.calls < MaxCalls
  /\ cfg.faulty = "none"
  /\ ~bld.write_failed
  /\ bld' = [bld EXCEPT !.pc = "base", !.calls = bld.calls + 1, !.result = FALSE,
                      !.requested = {}, !.reported = Notify({0, 5, 8, 10}),
                      !.reentry = (bld.pc = "returned" /\ bld.result /\ TargetsExist),
                      !.failed_at = "", !.elapsed = FALSE, !.failed = {}]
  /\ dirs' = dirs \cup {"instance", "instance/.minecraft"}
  /\ dfs' = [t \in Threads |-> StrIdle]
  /\ UNCHANGED <<fs, profiles, BuildFrameVars>>
  /\ NoMulti

\* lines 98-99, 164-170: instance_dir.mkdir raises; the except branch
\* reports -1 and returns False
CbMkdirRaises ==
  /\ bld.pc \in {"idle", "returned"}
  /\ bld.calls < MaxCalls
  /\ cfg.faulty = "none"
  /\ ~bld.write_failed
  /\ "instance" \notin dirs
  /\ bld' = [bld EXCEPT !.pc = "returned", !.calls = bld.calls + 1, !.result = FALSE,
                      !.requested = {}, !.reported = Notify({0, -1}),
                      !.reentry = FALSE, !.failed_at = "mkdir", !.elapsed = FALSE,
                      !.failed = {}]
  /\ UNCHANGED <<fs, dirs, dfs, profiles, BuildFrameVars>>
  /\ NoMulti

\* lines 81-82: the first log_callback call is made before the try block;
\* what it raises leaves create_build
CbLogRaises ==
  /\ bld.pc = "idle"
  /\ cfg.faulty = "log"
  /\ bld' = [bld EXCEPT !.pc = "raised", !.calls = bld.calls + 1]
  /\ UNCHANGED <<fs, dirs, dfs, profiles, BuildFrameVars>>
  /\ NoMulti

\* lines 95-96, 164-170: progress_callback(0, ...) raises inside the try
\* block; the except branch calls progress_callback(-1, ...), which raises
\* again, and nothing catches that
CbProgressRaises ==
  /\ bld.pc = "idle"
  /\ cfg.faulty = "progress"
  /\ bld' = [bld EXCEPT !.pc = "raised", !.calls = bld.calls + 1,
                      !.reported = Notify({0, -1})]
  /\ UNCHANGED <<fs, dirs, dfs, profiles, BuildFrameVars>>
  /\ NoMulti

\* between two calls more than the cache TTL goes by
Elapse ==
  /\ bld.pc = "returned"
  /\ ~bld.elapsed
  /\ ~bld.write_failed
  /\ bld.calls < MaxCalls
  /\ now' = now + default_ttl + 1
  /\ bld' = [bld EXCEPT !.elapsed = TRUE]
  /\ UNCHANGED <<fs, cache, body, dfs, cfg, max_workers, build_states, dirs, profiles,
                 callVars, lockVars, sideVars>>
  /\ NoMulti

\* (mutant) the directory is never found
VersionExists_never(d) == FALSE

\* line 192: version_dir.exists()
VersionExists(d) == VersionDir \in d

\* (mutant) every id is taken to be listed
VersionListed_any == TRUE

\* _get_version_info lines 285-286: some entry of the manifest has the id
VersionListed == cfg.in_manifest

\* _download_minecraft_version, lines 190-196: the version directory exists
DmvExists ==
  /\ bld.pc = "base"
  /\ VersionExists(dirs)
  /\ Goto("loader", bld.requested, bld.reported)
  /\ UNCHANGED <<fs, dirs, dfs, profiles, BuildFrameVars>>
  /\ NoMulti

\* lines 198-199, _get_version_info lines 276-279: the manifest is fetched
\* into a fresh temporary file
DmvManifest ==
  /\ bld.pc = "base"
  /\ ~VersionExists(dirs)
  /\ fs' = [fs EXCEPT !["tmp_manifest"] = File(<<>>)]
  /\ dfs' = [dfs EXCEPT ![Caller] =
               CallFrame("manifest", "tmp_manifest", TRUE, FALSE, FALSE, fs', cache, now)]
  /\ Goto("manifest", bld.requested, bld.reported)
  /\ UNCHANGED <<dirs, profiles, BuildFrameVars>>
  /\ NoMulti

\* _get_version_info lines 279-301: the manifest is scanned for the version
\* and the version's document is fetched
DmvManifestDone ==
  LET f == dfs[Caller]
      req == bld.requested \cup NetUrls(f)
  IN /\ bld.pc = "manifest"
     /\ FetchOver
     /\ IF f.result /\ VersionListed
        THEN /\ fs' = [fs EXCEPT !["tmp_version"] = File(<<>>)]
             /\ dfs' = [dfs EXCEPT ![Caller] =
                          CallFrame("version_json", "tmp_version", TRUE, FALSE, FALSE,
                                    fs', cache, now)]
             /\ Goto("version_info", req, bld.reported)
        ELSE /\ ReturnFalse("base", req, bld.reported)
             /\ UNCHANGED <<fs, dfs>>
     /\ UNCHANGED <<dirs, profiles, BuildFrameVars>>
     /\ NoMulti

\* _get_version_info lines 291-301, _download_minecraft_version lines
\* 201-227: the version JSON is written into the version directory and the
\* version's needed libraries go to download_multiple_files
DmvVersionInfoDone ==
  LET f == dfs[Caller]
      req == bld.requested \cup NetUrls(f)
  IN /\ bld.pc = "version_info"
     /\ FetchOver
     /\ IF f.result
        THEN /\ dirs' = dirs \cup {VersionDir}
             /\ fs' = [fs EXCEPT !["version_json"] = File(fs["tmp_version"].data)]
             /\ FetchAll(<<[url |-> "lib", dest |-> "lib"]>>,
                         [progress |-> "returns", log |-> "returns"])
             /\ Goto("libs", req, bld.reported)
        ELSE /\ ReturnFalse("base", req, bld.reported)
             /\ UNCHANGED <<fs, dirs, dfs>>
             /\ NoMulti
     /\ UNCHANGED <<profiles, BuildFrameVars>>

\* lines 227-245: the result of _download_libraries is dropped; the client
\* jar is fetched
DmvLibsDone ==
  /\ bld.pc = "libs"
  /\ FetchAllOver
  /\ Fetch("client", "client_jar", TRUE)
  /\ Goto("client", bld.requested \cup NetUrlsMulti,
          Notify({LibPercent(mf.calls[i].current, mf.calls[i].total) :
                    i \in 1..Len(mf.calls)}))
  /\ UNCHANGED <<fs, dirs, profiles, BuildFrameVars>>
  /\ NoMulti

\* lines 245-262, _download_assets lines 460-469: without the client jar
\* the version fails; with it the asset index is fetched
DmvClientDone ==
  LET f == dfs[Caller]
      req == bld.requested \cup NetUrls(f)
      rep == bld.reported \cup Reported(f)
  IN /\ bld.pc = "client"
     /\ FetchOver
     /\ IF f.result
        THEN /\ Fetch("asset_index", "asset_index", TRUE)
             /\ Goto("asset_index", req, rep)
        ELSE /\ ReturnFalse("base", req, rep)
             /\ UNCHANGED dfs
     /\ UNCHANGED <<fs, dirs, profiles, BuildFrameVars>>
     /\ NoMulti

\* _download_assets lines 469-493: the objects of the index go to
\* download_multiple_files; a failed index fetch ends _download_assets,
\* whose result is dropped (line 262)
DmvAssetIndexDone ==
  LET f == dfs[Caller]
      req == bld.requested \cup NetUrls(f)
      rep == bld.reported \cup Reported(f)
  IN /\ bld.pc = "asset_index"
     /\ FetchOver
     /\ IF f.result
        THEN /\ FetchAll(<<[url |-> "asset", dest |-> "asset"]>>,
                         [progress |-> IF cfg.has_cb THEN "returns" ELSE "none",
                          log |-> "none"])
             /\ Goto("assets", req, rep)
        ELSE /\ Goto("loader", req, rep)
             /\ UNCHANGED dfs
             /\ NoMulti
     /\ UNCHANGED <<fs, dirs, profiles, BuildFrameVars>>

\* line 492-493, 264: the result of the asset downloads is dropped
DmvAssetsDone ==
  /\ bld.pc = "assets"
  /\ FetchAllOver
  /\ Goto("loader", bld.requested \cup NetUrlsMulti,
          Notify({AssetPercent(mf.calls[i].current, mf.calls[i].total) :
                    i \in 1..Len(mf.calls)}))
  /\ UNCHANGED <<fs, dirs, dfs, profiles, BuildFrameVars>>
  /\ NoMulti

\* (mutant) the result of _install_loader is not looked at
LoaderInstalled_ignored(ok) == TRUE

\* line 131: if not self._install_loader(...): return False
LoaderInstalled(ok) == ok

\* lines 120-130: Vanilla has no loader to install
CbVanilla ==
  /\ bld.pc = "loader"
  /\ cfg.loader = "Vanilla"
  /\ Goto("finish", bld.requested, Notify({30, 40}))
  /\ UNCHANGED <<fs, dirs, dfs, profiles, BuildFrameVars>>
  /\ NoMulti

\* _install_fabric lines 520-536, _install_quilt lines 601-612: the loader
\* profile is fetched into the temp directory
InstallProfile ==
  /\ bld.pc = "loader"
  /\ cfg.loader \in ProfileLoaders
  /\ Fetch("loader_profile", "tmp_profile", TRUE)
  /\ Goto("loader_profile", bld.requested, Notify({30, 40, 45}))
  /\ UNCHANGED <<fs, dirs, profiles, BuildFrameVars>>
  /\ NoMulti

\* _install_fabric lines 537-564, _install_quilt lines 613-628: the profile
\* is saved under versions/ and its needed libraries are downloaded
InstallProfileDone ==
  LET f == dfs[Caller]
      req == bld.requested \cup NetUrls(f)
      rep == bld.reported \cup Reported(f)
  IN /\ bld.pc = "loader_profile"
     /\ FetchOver
     /\ IF f.result
        THEN LET fl == files_to_download(<<cfg.profile_library>>, "loader_lib",
                                         "loader_lib")
             IN /\ dirs' = dirs \cup {LoaderDir(cfg.loader)}
                /\ fs' = [fs EXCEPT !["loader_profile"] = File(fs["tmp_profile"].data)]
                /\ IF fl = <<>>
                   THEN /\ Goto("finish", req,
                                rep \cup (IF cfg.has_cb THEN {70} ELSE {}))
                        /\ UNCHANGED dfs
                        /\ NoMulti
                   ELSE /\ FetchAll(fl, [progress |-> "returns", log |-> "returns"])
                        /\ Goto("loader_libs", req, rep)
        ELSE /\ IF LoaderInstalled(FALSE)
                THEN Goto("finish", req, rep)
                ELSE ReturnFalse("loader", req, rep)
             /\ UNCHANGED <<fs, dirs, dfs>>
             /\ NoMulti
     /\ UNCHANGED <<profiles, BuildFrameVars>>

\* _install_fabric lines 564-569, _install_quilt lines 628-631
InstallLibsDone ==
  LET req == bld.requested \cup NetUrlsMulti
      rep == Notify({LibPercent(mf.calls[i].current, mf.calls[i].total) :
                       i \in 1..Len(mf.calls)})
  IN /\ bld.pc = "loader_libs"
     /\ FetchAllOver
     /\ IF LoaderInstalled(mf.result)
        THEN Goto("finish", req, rep \cup (IF cfg.has_cb THEN {70} ELSE {}))
        ELSE ReturnFalse("loader", req, rep)
     /\ UNCHANGED <<fs, dirs, dfs, profiles, BuildFrameVars>>
     /\ NoMulti

\* _install_forge lines 580-595, _install_neoforge lines 637-653 with
\* _download_file lines 306-318: an installer already on disk is kept
InstallInstaller ==
  /\ bld.pc = "loader"
  /\ cfg.loader \in InstallerLoaders
  /\ IF fs["installer"].exists
     THEN /\ Goto("finish", bld.requested, Notify({30, 40, 45, 70}))
          /\ UNCHANGED dfs
     ELSE /\ Fetch("installer", "installer", TRUE)
          /\ Goto("installer", bld.requested, Notify({30, 40, 45}))
  /\ UNCHANGED <<fs, dirs, profiles, BuildFrameVars>>
  /\ NoMulti

\* _install_server_jar lines 659-675
InstallServerJar ==
  /\ bld.pc = "loader"
  /\ cfg.loader \in ServerLoaders
  /\ dirs' = dirs \cup {LoaderDir(cfg.loader)}
  /\ Fetch("server_jar", "server_jar", TRUE)
  /\ Goto("installer", bld.requested, Notify({30, 40, 45}))
  /\ UNCHANGED <<fs, profiles, BuildFrameVars>>
  /\ NoMulti

\* _download_file lines 313-318, _install_server_jar lines 675-679, then
\* create_build lines 131-139
InstallFetchDone ==
  LET f == dfs[Caller]
      req == bld.requested \cup NetUrls(f)
      rep == bld.reported \cup Reported(f)
  IN /\ bld.pc = "installer"
     /\ FetchOver
     /\ IF LoaderInstalled(f.result)
        THEN Goto("finish", req, rep \cup (IF cfg.has_cb THEN {70} ELSE {}))
        ELSE ReturnFalse("loader", req, rep)
     /\ UNCHANGED <<fs, dirs, dfs, profiles, BuildFrameVars>>
     /\ NoMulti

\* lines 129, 135: the version id written to the launcher profile
VersionId == IF cfg.loader = "Vanilla" THEN VersionDir ELSE LoaderVersionId(cfg.loader)

\* What the filesystem does to the two writes that end a build: both
\* succeed, or launcher_profiles.json cannot be written, or instance.cfg
\* cannot be written.
Writes == {"ok", "profile_fails", "config_fails"}

\* lines 140-163: _create_launch_profile (lines 685-714) and
\* _create_instance_config (lines 716-733) catch what their writes raise
\* and return nothing; create_build goes on and returns True. A run is
\* not followed past a failed write.
CbFinish ==
  /\ bld.pc = "finish"
  /\ \E w \in Writes :
       /\ profiles' = IF w = "profile_fails" THEN profiles
                      ELSE [n \in DOMAIN profiles \cup {cfg.name} |->
                              IF n = cfg.name THEN VersionId ELSE profiles[n]]
       /\ fs' = IF w = "config_fails" THEN fs
                ELSE [fs EXCEPT !["instance_cfg"] = File(<<1>>)]
       /\ bld' = [bld EXCEPT !.pc = "returned", !.result = TRUE,
                           !.reported = Notify({80, 85, 95, 100}),
                           !.write_failed = (w # "ok")]
  /\ UNCHANGED <<dirs, dfs, BuildFrameVars>>
  /\ NoMulti

\* ------------------------------------------------- calls and threads
\* ConfigManager.config with no download_threads key
NoSettings == [download_threads |-> None]
IdleLib == [pc |-> "idle", has_rules |-> FALSE, rules |-> <<>>, current_os |-> "",
            current_arch |-> "", result |-> FALSE]
\* The last CacheService call: its arguments, what it returned (found for
\* has, ret for get), the cache file of the key before the call (pre) and
\* the time of the call (at); n and ticks count the calls and clock steps
\* made; set_* remember the most recent set while no clear or cleanup has
\* followed it (set_live).
IdleOp == [op |-> "none", key |-> <<>>, ttl |-> None, data |-> <<>>,
           found |-> FALSE, ret |-> NoFile, pre |-> NoEntry, at |-> 0,
           n |-> 0, ticks |-> 0,
           set_live |-> FALSE, set_key |-> <<>>, set_data |-> <<>>, set_at |-> 0]
StateThreads == 1..MaxThreads
IdleThread == [pc |-> "idle", op |-> "none", name |-> "", arg |-> UnknownState,
               ret |-> UnknownState, n |-> 0]

IdleDelete == [pc |-> "idle", build_name |-> <<>>, result |-> FALSE]
CacheThreads == 1..MaxThreads
\* A CacheService call of a thread: for set, the bytes given, how many of
\* them have reached the file (off) and whether the file it opened is still
\* the one at the path (linked); for get, what it returned.
IdleCacheThread == [pc |-> "idle", op |-> "none", data |-> <<>>, off |-> 0,
                    linked |-> FALSE, ret |-> NoFile]
Workers == 1..MaxThreads
\* The _download_minecraft_version call of a build worker; requested and
\* written are history: the urls it asked the network for and the target
\* files it wrote.
IdleWorker == [pc |-> "idle", result |-> FALSE, requested |-> {}, written |-> {}]

\* A launch: the libraries, the conditional JVM arguments and the game
\* arguments of the version JSON read, the OS and architecture of the
\* machine, and the three lists assembled.
IdleLaunch == [pc |-> "idle", libraries |-> <<>>, jvm |-> <<>>, game |-> <<>>,
               current_os |-> "", current_arch |-> "",
               classpath |-> <<>>, jvm_args |-> <<>>, game_args |-> <<>>]

\* launcher_profiles.json: whether it exists, whether json.load accepts
\* it, and the profile keys it holds; and per build worker the frame of
\* its _create_launch_profile call: the keys it read (profiles) and
\* whether another worker wrote the file while this one had it open
\* (overlapped).
NoProfilesFile == [exists |-> FALSE, parsable |-> FALSE, names |-> {}]
IdleWriter == [pc |-> "idle", profiles |-> {}, overlapped |-> FALSE, result |-> FALSE]
IdleProfiles == [file |-> NoProfilesFile, thr |-> [w \in Workers |-> IdleWriter]]

NoSide ==
  /\ lch = IdleLaunch
  /\ lp = IdleProfiles
  /\ dlt = IdleDelete
  /\ cthr = [t \in CacheThreads |-> IdleCacheThread]
  /\ wk = [w \in Workers |-> IdleWorker]

NoCalls ==
  /\ config = NoSettings
  /\ lib = IdleLib
  /\ cop = IdleOp
  /\ state_lock = None
  /\ thr = [t \in StateThreads |-> IdleThread]
  /\ committed = <<>>
  /\ NoSide

\* ------------------------------------------------------------ SpecMulti
\* One call download_multiple_files(files, progress_callback, log_callback):
\* 0..MaxFiles pairs with distinct urls; destinations all distinct or all
\* the same path; destinations all absent or all present beforehand; the
\* cache empty or holding a fresh blob of every url; callbacks absent,
\* returning or raising; a pool of 1..MaxWorkers threads.
InitMulti ==
  /\ now = default_ttl + 1
  /\ body = [u \in Urls |-> <<1>>]
  /\ \E c \in {NoEntry, Entry(<<2>>, default_ttl + 1)} : cache = [k \in Urls |-> c]
  /\ \E old \in {NoFile, File(<<1, 1>>)} : fs = [p \in Paths |-> old]
  /\ dfs = [t \in Threads |-> IdleFrame]
  /\ \E n \in 0..MaxFiles, same \in BOOLEAN :
       files = [i \in 1..n |-> [url |-> i, dest |-> IF same THEN 1 ELSE i]]
  /\ cbs \in [progress : CbKinds, log : CbKinds]
  /\ max_workers \in 1..MaxWorkers
  /\ fut = [i \in Items |-> "none"]
  /\ mf = [IdleMulti EXCEPT !.pc = "start"]
  /\ NoBuild
  /\ NoCalls

\* a step of a pool thread inside download_single_file
WorkerStep(i) == fut[i] = "running" /\ DfsStep(i) /\ UNCHANGED multiVars

NextMulti ==
  \/ MfEmpty /\ UNCHANGED buildVars
  \/ MfFirstLogRaises /\ UNCHANGED buildVars
  \/ MfSubmit /\ UNCHANGED buildVars
  \/ \E i \in Items : WorkerStart(i) /\ UNCHANGED buildVars
  \/ \E i \in Items : WorkerStep(i) /\ UNCHANGED buildVars
  \/ \E k \in Items : MfCollect(k) /\ UNCHANGED buildVars
  \/ MfReturn /\ UNCHANGED buildVars
  \/ MfUnwind /\ UNCHANGED buildVars

SpecMulti == InitMulti /\ [][NextMulti]_vars

\* ------------------------------------------------------- SpecTransport
\* One call download_file_sync(url, dest, progress_callback, use_cache) by a
\* direct caller, for every body at the url, every cache file of the url
\* (none, fresh, at the TTL, past the TTL) and dest present or absent.
Mtimes == {0, 1, default_ttl + 1}

InitTransport ==
  /\ now = default_ttl + 1
  /\ \E b \in Bodies : body = [u \in Urls |-> b]
  /\ \E e \in {NoEntry} \cup {Entry(b, m) : b \in Blobs, m \in Mtimes} :
       cache = [k \in Urls |-> IF k = 1 THEN e ELSE NoEntry]
  /\ \E old \in {NoFile} \cup {File(<<1>>)} :
       fs = [p \in Paths |-> IF p = 1 THEN old ELSE NoFile]
  /\ \E uc \in BOOLEAN, cb \in BOOLEAN :
       dfs = [t \in Threads |->
                IF t = Caller THEN CallFrame(1, 1, uc, cb, TRUE, fs, cache, now) ELSE IdleFrame]
  /\ files = <<>>
  /\ cbs = NoCallbacks
  /\ max_workers = default_download_threads
  /\ fut = [i \in Items |-> "none"]
  /\ mf = IdleMulti
  /\ NoBuild
  /\ NoCalls

NextTransport == DfsStep(Caller) /\ UNCHANGED <<multiVars, buildVars>>

SpecTransport == InitTransport /\ [][NextTransport]_vars

\* ------------------------------------------------------------ SpecBuild
\* MaxCalls create_build calls with one config, from an empty launcher
\* root and an empty cache: every loader family, a version the manifest
\* lists or not, with and without a progress callback, every outcome of
\* every fetch. The lists handed to download_multiple_files hold one pair,
\* so the size of the pool plays no part and is held at MaxWorkers.
InitBuild ==
  /\ now = 0
  /\ body = [u \in BuildUrls |-> <<1>>]
  /\ cache = [u \in BuildUrls |-> NoEntry]
  /\ fs = [p \in BuildPaths |-> NoFile]
  /\ dfs = [t \in Threads |-> StrIdle]
  /\ files = <<>>
  /\ cbs = NoCallbacks
  /\ max_workers = MaxWorkers
  /\ fut = [i \in Items |-> "none"]
  /\ mf = IdleMulti
  /\ \E l \in Loaders, m \in BOOLEAN, c \in BOOLEAN, r \in Faults,
        pl \in {AnyOsLibrary, OtherOsLibrary} :
       /\ r = "progress" => c
       /\ (l \notin ProfileLoaders \/ c) => pl = AnyOsLibrary
       /\ cfg = [name |-> "Demo", loader |-> l, in_manifest |-> m, has_cb |-> c,
                 faulty |-> r, profile_library |-> pl]
  /\ bld = IdleBuild
  /\ dirs = {}
  /\ profiles = <<>>
  /\ build_states = <<>>
  /\ NoCalls

NextBuild ==
  \/ CbCall
  \/ CbMkdirRaises
  \/ CbLogRaises
  \/ CbProgressRaises
  \/ Elapse
  \/ DmvExists
  \/ DmvManifest
  \/ DmvManifestDone
  \/ DmvVersionInfoDone
  \/ DmvLibsDone
  \/ DmvClientDone
  \/ DmvAssetIndexDone
  \/ DmvAssetsDone
  \/ CbVanilla
  \/ InstallProfile
  \/ InstallProfileDone
  \/ InstallLibsDone
  \/ InstallInstaller
  \/ InstallServerJar
  \/ InstallFetchDone
  \/ CbFinish
  \/ DfsStep(Caller) /\ UNCHANGED <<multiVars, buildVars>>
  \/ MfSubmit /\ UNCHANGED buildVars
  \/ \E i \in Items : WorkerStart(i) /\ UNCHANGED buildVars
  \/ \E i \in Items : WorkerStep(i) /\ UNCHANGED buildVars
  \/ \E k \in Items : MfCollect(k) /\ UNCHANGED buildVars
  \/ MfReturn /\ UNCHANGED buildVars

SpecBuild == InitBuild /\ [][NextBuild]_vars

\* ------------------------------------------------------------- SpecPool
\* DownloadService is a singleton: __new__ hands out the one instance and
\* __init__ returns at once when it is already initialized. max_workers is
\* None until the first construction.

\* line 31: getattr(config_manager, 'config', {}).get('download_threads', 8)
\* if config_manager else 8
ConfiguredThreads(with_config) ==
  IF with_config /\ config.download_threads # None
  THEN config.download_threads
  ELSE default_download_threads

\* lines 24-31
DownloadServiceInit(mw, with_config) ==
  IF mw # None THEN mw ELSE ConfiguredThreads(with_config)

PoolRest == <<transportVars, files, cbs, fut, mf, buildVars>>

\* DownloadService(), as in _get_version_info (build_manager.py:279)
ConstructBare ==
  /\ mf.pc = "idle"
  /\ max_workers' = DownloadServiceInit(max_workers, FALSE)
  /\ UNCHANGED PoolRest

\* DownloadService(config_manager), as in MinecraftManager.__init__
ConstructConfigured ==
  /\ mf.pc = "idle"
  /\ max_workers' = DownloadServiceInit(max_workers, TRUE)
  /\ UNCHANGED PoolRest

\* _download_libraries, lines 425-447: DownloadService(self.config_manager)
\* and download_multiple_files(files_to_download, progress_wrapper, log_wrapper)
DownloadLibraries ==
  /\ mf.pc = "idle"
  /\ max_workers' = DownloadServiceInit(max_workers, TRUE)
  /\ mf' = [IdleMulti EXCEPT !.pc = "start"]
  /\ UNCHANGED <<transportVars, files, cbs, fut, buildVars>>

\* A fresh process whose configuration sets download_threads or not; the
\* service is constructed any number of times, with and without the
\* configuration, before _download_libraries fetches 1..MaxFiles libraries.
InitPool ==
  /\ now = 0
  /\ body = [u \in Urls |-> <<1>>]
  /\ cache = [k \in Urls |-> NoEntry]
  /\ fs = [p \in Paths |-> NoFile]
  /\ dfs = [t \in Threads |-> IdleFrame]
  /\ \E n \in 1..MaxFiles : files = [i \in 1..n |-> [url |-> i, dest |-> i]]
  /\ cbs = [progress |-> "returns", log |-> "returns"]
  /\ max_workers = None
  /\ fut = [i \in Items |-> "none"]
  /\ mf = IdleMulti
  /\ NoBuild
  /\ config \in [download_threads : {None} \cup 1..MaxWorkers]
  /\ lib = IdleLib
  /\ cop = IdleOp
  /\ state_lock = None
  /\ thr = [t \in StateThreads |-> IdleThread]
  /\ committed = <<>>
  /\ NoSide

NextPool ==
  \/ ConstructBare
  \/ ConstructConfigured
  \/ DownloadLibraries
  \/ MfSubmit /\ UNCHANGED buildVars
  \/ \E i \in Items : WorkerStart(i) /\ UNCHANGED buildVars
  \/ \E i \in Items : WorkerStep(i) /\ UNCHANGED buildVars
  \/ \E k \in Items : MfCollect(k) /\ UNCHANGED buildVars
  \/ MfReturn /\ UNCHANGED buildVars

SpecPool == InitPool /\ [][NextPool]_vars

\* ------------------------------------------------------------ SpecRules
OsNames == {"windows", "linux"}
Arches == {"x86", "amd64"}
RuleSet == [action : {NoKey, "allow", "disallow", "other"},
            name : {NoKey} \cup OsNames,
            arch : {NoKey} \cup Arches]
RuleLists == UNION {[1..n -> RuleSet] : n \in 0..MaxRules}

IsLibraryNeeded ==
  /\ lib.pc = "called"
  /\ lib' = [lib EXCEPT !.pc = "done",
                        !.result = is_library_needed(lib, lib.current_os, lib.current_arch)]
  /\ UNCHANGED <<transportVars, multiVars, cfg, bld, dirs, profiles, build_states,
                 config, cop, lockVars, sideVars>>

\* One call of _is_library_needed: a library without a "rules" key or with
\* any list of up to MaxRules rules, on any OS and architecture.
InitRules ==
  /\ now = 0
  /\ body = [u \in Urls |-> <<1>>]
  /\ cache = [k \in Urls |-> NoEntry]
  /\ fs = [p \in Paths |-> NoFile]
  /\ dfs = [t \in Threads |-> IdleFrame]
  /\ files = <<>>
  /\ cbs = NoCallbacks
  /\ max_workers = default_download_threads
  /\ fut = [i \in Items |-> "none"]
  /\ mf = IdleMulti
  /\ NoBuild
  /\ config = NoSettings
  /\ \E hr \in BOOLEAN, rs \in RuleLists, o \in OsNames, a \in Arches :
       /\ (~hr => rs = <<>>)
       /\ lib = [pc |-> "called", has_rules |-> hr, rules |-> rs, current_os |-> o,
                 current_arch |-> a, result |-> FALSE]
  /\ cop = IdleOp
  /\ state_lock = None
  /\ thr = [t \in StateThreads |-> IdleThread]
  /\ committed = <<>>
  /\ NoSide

NextRules == IsLibraryNeeded

SpecRules == InitRules /\ [][NextRules]_vars

\* ------------------------------------------------------------ SpecCache
\* Keys are strings, here sequences of characters.
Keys == {<<"a">>, <<"a", "/", "b">>, <<"a", ":", "b">>}
\* the blobs stored: empty, one byte, two different bytes
Payloads == {<<>>, <<1>>, <<2, 1>>}

\* _key_to_path: '/', ':', '?' and '&' become '_'
key_to_path(key) ==
  [i \in 1..Len(key) |-> IF key[i] \in {"/", ":", "?", "&"} THEN "_" ELSE key[i]]

CachePaths == {key_to_path(k) : k \in Keys}
Ttls == {None, 0, 1, default_ttl}

CacheRest == <<fs, body, dfs, multiVars, cfg, bld, dirs, profiles, build_states,
               config, lib, lockVars, sideVars>>

Called(op, key, ttl) ==
  [cop EXCEPT !.op = op, !.key = key, !.ttl = ttl, !.data = <<>>, !.found = FALSE,
              !.ret = NoFile, !.pre = cache[key_to_path(key)], !.at = now,
              !.n = cop.n + 1]

\* has(key, ttl)
Has(key, ttl) ==
  /\ cop.n < MaxOps
  /\ cache' = CacheAfterHas(cache, key_to_path(key), ttl, now)
  /\ cop' = [Called("has", key, ttl) EXCEPT
               !.found = CacheHas(cache, key_to_path(key), ttl, now)]
  /\ UNCHANGED <<now, CacheRest>>

\* get(key, ttl): has(key, ttl), then the file is read
Get(key, ttl) ==
  /\ cop.n < MaxOps
  /\ cache' = CacheAfterHas(cache, key_to_path(key), ttl, now)
  /\ cop' = [Called("get", key, ttl) EXCEPT
               !.ret = CacheGet(cache, key_to_path(key), ttl, now)]
  /\ UNCHANGED <<now, CacheRest>>

\* set(key, data)
Set(key, data) ==
  /\ cop.n < MaxOps
  /\ cache' = CacheSet(cache, key_to_path(key), data, now)
  /\ cop' = [Called("set", key, None) EXCEPT
               !.data = data, !.set_live = TRUE, !.set_key = key,
               !.set_data = data, !.set_at = now]
  /\ UNCHANGED <<now, CacheRest>>

\* clear()
Clear ==
  /\ cop.n < MaxOps
  /\ cache' = CacheClear(cache)
  /\ cop' = [Called("clear", <<"a">>, None) EXCEPT !.set_live = FALSE]
  /\ UNCHANGED <<now, CacheRest>>

\* cleanup(), as _cleanup_timer_callback calls it
Cleanup ==
  /\ cop.n < MaxOps
  /\ cache' = CacheCleanup(cache, None, now)
  /\ cop' = [Called("cleanup", <<"a">>, None) EXCEPT !.set_live = FALSE]
  /\ UNCHANGED <<now, CacheRest>>

\* time goes by: a second, or the default TTL
Tick(d) ==
  /\ cop.ticks < MaxTicks
  /\ now' = now + d
  /\ cop' = [cop EXCEPT !.ticks = cop.ticks + 1]
  /\ UNCHANGED <<cache, CacheRest>>

\* Up to MaxOps calls of has, get, set, clear and cleanup on an empty cache
\* directory, with any key, blob and TTL, and the clock stepping in between.
InitCache ==
  /\ now = 0
  /\ body = [u \in Urls |-> <<1>>]
  /\ cache = [k \in CachePaths |-> NoEntry]
  /\ fs = [p \in Paths |-> NoFile]
  /\ dfs = [t \in Threads |-> IdleFrame]
  /\ files = <<>>
  /\ cbs = NoCallbacks
  /\ max_workers = default_download_threads
  /\ fut = [i \in Items |-> "none"]
  /\ mf = IdleMulti
  /\ NoBuild
  /\ NoCalls

NextCache ==
  \/ \E k \in Keys, ttl \in Ttls : Has(k, ttl)
  \/ \E k \in Keys, ttl \in Ttls : Get(k, ttl)
  \/ \E k \in Keys, b \in Payloads : Set(k, b)
  \/ Clear
  \/ Cleanup
  \/ \E d \in {1, default_ttl} : Tick(d)

SpecCache == InitCache /\ [][NextCache]_vars

\* ----------------------------------------------------------- SpecStates
BuildNames == {"Demo", "Other"}
\* two states that differ in every field
StateArgs == {[status |-> "downloading", progress |-> 50, message |-> "half"],
              [status |-> "error", progress |-> -1, message |-> "failed"]}

StatesRest == <<transportVars, multiVars, cfg, bld, dirs, profiles, callVars, sideVars>>

\* (mutant) the lock is handed out while it is held
LockFree_always(l) == TRUE

\* threading.Lock: free to acquire
LockFree(l) == l = None

\* a thread calls set_build_state, get_build_state or clear_build_state and
\* reaches `with self._state_lock`
StateCall(t, op, name, arg) ==
  /\ thr[t].pc = "idle"
  /\ thr[t].n < MaxStateCalls
  /\ thr' = [thr EXCEPT ![t] = [pc |-> "entering", op |-> op, name |-> name,
                                arg |-> IF op = "set" THEN arg ELSE UnknownState,
                                ret |-> UnknownState, n |-> thr[t].n + 1]]
  /\ UNCHANGED <<build_states, state_lock, committed, StatesRest>>

\* lines 874, 882, 890: the lock is acquired
Acquire(t) ==
  /\ thr[t].pc = "entering"
  /\ LockFree(state_lock)
  /\ state_lock' = t
  /\ thr' = [thr EXCEPT ![t].pc = "locked"]
  /\ UNCHANGED <<build_states, committed, StatesRest>>

\* lines 875-879, 883-887, 891-892: the body under the lock
Body(t) ==
  LET f == thr[t]
  IN /\ f.pc = "locked"
     /\ build_states' =
          IF f.op = "set"
          THEN set_build_state(build_states, f.name, f.arg.status, f.arg.progress,
                               f.arg.message)
          ELSE IF f.op = "clear" THEN clear_build_state(build_states, f.name)
          ELSE build_states
     /\ thr' = [thr EXCEPT ![t].pc = "leaving",
                           ![t].ret = IF f.op = "get"
                                      THEN get_build_state(build_states, f.name)
                                      ELSE UnknownState]
     /\ UNCHANGED <<state_lock, committed, StatesRest>>

\* the with block is left: the lock is released and the call returns
Release(t) ==
  /\ thr[t].pc = "leaving"
  /\ state_lock' = None
  /\ committed' = build_states
  /\ thr' = [thr EXCEPT ![t] = [IdleThread EXCEPT !.n = thr[t].n]]
  /\ UNCHANGED <<build_states, StatesRest>>

\* MaxThreads threads, each making up to MaxStateCalls calls of
\* set_build_state, get_build_state and clear_build_state on two names.
InitStates ==
  /\ now = 0
  /\ body = [u \in Urls |-> <<1>>]
  /\ cache = [k \in Urls |-> NoEntry]
  /\ fs = [p \in Paths |-> NoFile]
  /\ dfs = [t \in Threads |-> IdleFrame]
  /\ files = <<>>
  /\ cbs = NoCallbacks
  /\ max_workers = default_download_threads
  /\ fut = [i \in Items |-> "none"]
  /\ mf = IdleMulti
  /\ NoBuild
  /\ NoCalls

NextStates ==
  \/ \E t \in StateThreads, op \in {"set", "get", "clear"}, name \in BuildNames,
        arg \in StateArgs : StateCall(t, op, name, arg)
  \/ \E t \in StateThreads : Acquire(t)
  \/ \E t \in StateThreads : Body(t)
  \/ \E t \in StateThreads : Release(t)

SpecStates == InitStates /\ [][NextStates]_vars

\* ----------------------------------------------------------- SpecDelete
\* Build names are strings, here sequences of characters.
DeleteNames == {<<"D">>, <<"a", " ", "b">>, <<"a", "_", "b">>, <<"a", ":", " ", "b">>}

RECURSIVE Collapse(_)
\* re.sub(r'_+', '_', ...)
Collapse(name) ==
  IF Len(name) <= 1 THEN name
  ELSE IF name[1] = "_" /\ name[2] = "_" THEN Collapse(Tail(name))
  ELSE <<name[1]>> \o Collapse(Tail(name))

RECURSIVE LStrip(_)
LStrip(name) ==
  IF name # <<>> /\ name[1] = " " THEN LStrip(Tail(name)) ELSE name

RECURSIVE RStrip(_)
RStrip(name) ==
  IF name # <<>> /\ name[Len(name)] = " "
  THEN RStrip(SubSeq(name, 1, Len(name) - 1))
  ELSE name

\* _sanitize_name, lines 172-180: the characters <>:"/\|?* become '_', the
\* name is stripped, runs of whitespace become '_', runs of '_' become one
sanitize_name(name) ==
  LET bad == {"<", ">", ":", "\"", "/", "\\", "|", "?", "*"}
      replaced == [i \in 1..Len(name) |-> IF name[i] \in bad THEN "_" ELSE name[i]]
      stripped == RStrip(LStrip(replaced))
      spaced == [i \in 1..Len(stripped) |-> IF stripped[i] = " " THEN "_" ELSE stripped[i]]
  IN Collapse(spaced)

\* self.instances_path / self._sanitize_name(build_name)
InstanceDir(build_name) == sanitize_name(build_name)
InstanceDirs == {InstanceDir(n) : n \in DeleteNames}

\* delete_build(build_name), lines 793-810; an rmtree that raises is caught
\* at line 808 and the call returns False
DeleteBuild(build_name) ==
  /\ dlt.pc = "idle"
  /\ IF InstanceDir(build_name) \in dirs
     THEN \E rmtree_ok \in BOOLEAN :
            IF rmtree_ok
            THEN /\ dirs' = dirs \ {InstanceDir(build_name)}
                 /\ build_states' = clear_build_state(build_states, build_name)
                 /\ dlt' = [pc |-> "returned", build_name |-> build_name, result |-> TRUE]
            ELSE /\ dlt' = [pc |-> "returned", build_name |-> build_name, result |-> FALSE]
                 /\ UNCHANGED <<dirs, build_states>>
     ELSE /\ dlt' = [pc |-> "returned", build_name |-> build_name, result |-> FALSE]
          /\ UNCHANGED <<dirs, build_states>>
  /\ UNCHANGED <<transportVars, multiVars, cfg, bld, profiles, callVars, lockVars, cthr, wk, lch, lp>>

\* One delete_build call, for every state table over the names and every
\* set of instance directories on disk.
InitDelete ==
  /\ now = 0
  /\ body = [u \in Urls |-> <<1>>]
  /\ cache = [k \in Urls |-> NoEntry]
  /\ fs = [p \in Paths |-> NoFile]
  /\ dfs = [t \in Threads |-> IdleFrame]
  /\ files = <<>>
  /\ cbs = NoCallbacks
  /\ max_workers = default_download_threads
  /\ fut = [i \in Items |-> "none"]
  /\ mf = IdleMulti
  /\ cfg = [name |-> "", loader |-> "Vanilla", in_manifest |-> FALSE, has_cb |-> FALSE,
            faulty |-> "none", profile_library |-> AnyOsLibrary]
  /\ bld = IdleBuild
  /\ dirs \in SUBSET InstanceDirs
  /\ profiles = <<>>
  /\ \E set \in SUBSET DeleteNames : build_states \in [set -> StateArgs]
  /\ NoCalls

NextDelete == \E n \in DeleteNames : DeleteBuild(n)

SpecDelete == InitDelete /\ [][NextDelete]_vars

\* -------------------------------------------------------- SpecCacheRace
\* MaxThreads threads, each making one CacheService call on the same key,
\* step by step at the grain of the file system calls the code makes.
RacePath == key_to_path(<<"a">>)
\* what an earlier set left in the file, and what the set calls write
InitialBlob == <<2, 2>>
RacePayloads == {<<1>>, <<2, 1>>}

RaceRest == <<fs, now, body, dfs, multiVars, cfg, bld, dirs, profiles, build_states,
              callVars, lockVars, dlt, wk, lch, lp>>

\* bytes off+1..off+k of data written at offset off of a file holding old;
\* a write past the end leaves a hole of zero bytes
WriteAt(old, data, off, k) ==
  [i \in 1..(IF Len(old) > off + k THEN Len(old) ELSE off + k) |->
     IF i > off /\ i <= off + k THEN data[i]
     ELSE IF i <= Len(old) THEN old[i] ELSE 0]

\* path.unlink(): the name goes; threads that have the file open keep
\* writing into a file no path leads to
Orphaned(frames) ==
  [u \in DOMAIN frames |->
     IF frames[u].pc = "write" THEN [frames[u] EXCEPT !.linked = FALSE] ELSE frames[u]]

\* set, line 64: open(path, 'wb') creates the file or truncates it in place
SetOpen(t, data) ==
  /\ cthr[t].pc = "idle"
  /\ cache' = [cache EXCEPT ![RacePath] = Entry(<<>>, now)]
  /\ cthr' = [cthr EXCEPT ![t] = [IdleCacheThread EXCEPT !.pc = "write", !.op = "set",
                                                        !.data = data, !.linked = TRUE]]
  /\ UNCHANGED RaceRest

\* set, lines 64-65: f.write(data) and the flush of close reach the file in
\* one write or in several
SetWrite(t) ==
  LET f == cthr[t]
  IN /\ f.pc = "write"
     /\ \E k \in 1..(Len(f.data) - f.off) :
          /\ cache' = IF f.linked
                      THEN [cache EXCEPT ![RacePath].data = WriteAt(@, f.data, f.off, k)]
                      ELSE cache
          /\ cthr' = [cthr EXCEPT ![t].off = f.off + k,
                                  ![t].pc = IF f.off + k = Len(f.data) THEN "utime"
                                            ELSE "write"]
     /\ UNCHANGED RaceRest

\* set, lines 66-68: os.utime(path, None); FileNotFoundError is caught
SetUtime(t) ==
  /\ cthr[t].pc = "utime"
  /\ cache' = IF cache[RacePath].exists THEN [cache EXCEPT ![RacePath].mtime = now]
              ELSE cache
  /\ cthr' = [cthr EXCEPT ![t].pc = "done"]
  /\ UNCHANGED RaceRest

\* get -> has, lines 36-38: path.exists()
GetExists(t) ==
  /\ cthr[t].pc = "idle"
  /\ cthr' = [cthr EXCEPT ![t] =
                [IdleCacheThread EXCEPT !.op = "get",
                                        !.pc = IF cache[RacePath].exists THEN "stat"
                                               ELSE "done"]]
  /\ UNCHANGED <<cache, RaceRest>>

\* has, lines 39-47: path.stat() outside any try, then the TTL test and the
\* unlink of an expired file
GetStat(t) ==
  /\ cthr[t].pc = "stat"
  /\ cthr[t].op = "get"
  /\ IF ~cache[RacePath].exists
     THEN /\ cthr' = [cthr EXCEPT ![t].pc = "raised"]
          /\ UNCHANGED cache
     ELSE IF Expired(cache[RacePath], None, now)
     THEN /\ cache' = [cache EXCEPT ![RacePath] = NoEntry]
          /\ cthr' = [Orphaned(cthr) EXCEPT ![t].pc = "done"]
     ELSE /\ cthr' = [cthr EXCEPT ![t].pc = "read"]
          /\ UNCHANGED cache
  /\ UNCHANGED RaceRest

\* get, lines 53-58: open(path, 'rb') and f.read(); an open that fails is
\* caught and None returned
GetRead(t) ==
  /\ cthr[t].pc = "read"
  /\ cthr' = [cthr EXCEPT ![t].pc = "done",
                          ![t].ret = IF cache[RacePath].exists
                                     THEN File(cache[RacePath].data) ELSE NoFile]
  /\ UNCHANGED <<cache, RaceRest>>

\* cleanup, lines 83-85, and clear, line 76: glob('*') lists the file
Glob(t, op) ==
  /\ cthr[t].pc = "idle"
  /\ cthr' = [cthr EXCEPT ![t] =
                [IdleCacheThread EXCEPT !.op = op,
                   !.pc = IF ~cache[RacePath].exists THEN "done"
                          ELSE IF op = "cleanup" THEN "stat" ELSE "unlink"]]
  /\ UNCHANGED <<cache, RaceRest>>

\* cleanup, lines 87-88: file.stat() and the age test, inside the try
CleanupStat(t) ==
  /\ cthr[t].pc = "stat"
  /\ cthr[t].op = "cleanup"
  /\ cthr' = [cthr EXCEPT ![t].pc =
                IF cache[RacePath].exists /\ Expired(cache[RacePath], None, now)
                THEN "unlink" ELSE "done"]
  /\ UNCHANGED <<cache, RaceRest>>

\* cleanup, line 89, and clear, line 78: file.unlink(), inside the try
UnlinkFile(t) ==
  /\ cthr[t].pc = "unlink"
  /\ cache' = [cache EXCEPT ![RacePath] = NoEntry]
  /\ cthr' = [Orphaned(cthr) EXCEPT ![t].pc = "done"]
  /\ UNCHANGED RaceRest

\* The cache file is absent, or a fresh or an expired file of an earlier
\* set; the clock stands still while the calls run.
InitCacheRace ==
  /\ now = default_ttl + 1
  /\ body = [u \in Urls |-> <<1>>]
  /\ \E e \in {NoEntry, Entry(InitialBlob, now), Entry(InitialBlob, 0)} :
       cache = [p \in {RacePath} |-> e]
  /\ fs = [p \in Paths |-> NoFile]
  /\ dfs = [t \in Threads |-> IdleFrame]
  /\ files = <<>>
  /\ cbs = NoCallbacks
  /\ max_workers = default_download_threads
  /\ fut = [i \in Items |-> "none"]
  /\ mf = IdleMulti
  /\ NoBuild
  /\ NoCalls

NextCacheRace ==
  \E t \in CacheThreads :
    \/ \E b \in RacePayloads : SetOpen(t, b)
    \/ SetWrite(t)
    \/ SetUtime(t)
    \/ GetExists(t)
    \/ GetStat(t)
    \/ GetRead(t)
    \/ \E op \in {"cleanup", "clear"} : Glob(t, op)
    \/ CleanupStat(t)
    \/ UnlinkFile(t)

SpecCacheRace == InitCacheRace /\ [][NextCacheRace]_vars

\* ------------------------------------------------------------- SpecRace
\* MaxThreads build workers (BuildWorker threads, one create_build each)
\* run _download_minecraft_version for the same game version at the same
\* time, from a launcher root that has or has not the version directory.
\* The version's JSON lists a client jar, no library and no asset index.
RaceUrls == {"client"}
RaceFiles == {"version_json", "client_jar"}
WorkerRest == <<body, multiVars, cfg, bld, profiles, build_states, callVars, lockVars,
                dlt, cthr, lch, lp>>

\* lines 190-196: the version directory exists
WkExists(w) ==
  /\ wk[w].pc = "idle"
  /\ VersionExists(dirs)
  /\ wk' = [wk EXCEPT ![w].pc = "returned", ![w].result = TRUE]
  /\ UNCHANGED <<transportVars, dirs, WorkerRest>>

\* lines 198-204, _get_version_info lines 271-304: the manifest and the
\* version's document are fetched into temporary files, or are not
WkVersionInfo(w) ==
  /\ wk[w].pc = "idle"
  /\ ~VersionExists(dirs)
  /\ \E ok \in BOOLEAN :
       wk' = [wk EXCEPT ![w].pc = IF ok THEN "save" ELSE "returned",
                        ![w].requested = @ \cup {"manifest", "version_json"}]
  /\ UNCHANGED <<transportVars, dirs, WorkerRest>>

\* lines 208-243: mkdir(exist_ok=True), the version JSON is written, and
\* the client jar goes to download_file_sync
WkSaveJson(w) ==
  /\ wk[w].pc = "save"
  /\ dirs' = dirs \cup {VersionDir}
  /\ fs' = [fs EXCEPT !["version_json"] = File(<<1>>)]
  /\ dfs' = [dfs EXCEPT ![w] = CallFrame("client", "client_jar", TRUE, FALSE, FALSE,
                                         fs', cache, now)]
  /\ wk' = [wk EXCEPT ![w].pc = "client", ![w].written = @ \cup {"version_json"}]
  /\ UNCHANGED <<cache, now, WorkerRest>>

\* a step of the worker inside download_file_sync
WkFetch(w) ==
  /\ wk[w].pc = "client"
  /\ DfsStep(w)
  /\ UNCHANGED <<wk, dirs, WorkerRest>>

\* lines 244-264: the result of the client download is the result of the
\* call (no assetIndex: _download_assets returns at line 464)
WkClientDone(w) ==
  LET f == dfs[w]
  IN /\ wk[w].pc = "client"
     /\ f.pc = "returned"
     /\ wk' = [wk EXCEPT ![w].pc = "returned", ![w].result = f.result,
                         ![w].requested = @ \cup NetUrls(f),
                         ![w].written = @ \cup (IF f.result THEN {"client_jar"} ELSE {})]
     /\ UNCHANGED <<transportVars, dirs, WorkerRest>>

InitRace ==
  /\ now = 0
  /\ body = [u \in RaceUrls |-> <<1>>]
  /\ cache = [u \in RaceUrls |-> NoEntry]
  /\ fs = [p \in RaceFiles |-> NoFile]
  /\ dfs = [t \in Workers |-> StrIdle]
  /\ files = <<>>
  /\ cbs = NoCallbacks
  /\ max_workers = default_download_threads
  /\ fut = [i \in Items |-> "none"]
  /\ mf = IdleMulti
  /\ cfg = [name |-> "", loader |-> "Vanilla", in_manifest |-> TRUE, has_cb |-> FALSE,
            faulty |-> "none", profile_library |-> AnyOsLibrary]
  /\ bld = IdleBuild
  /\ dirs \in {{}, {VersionDir}}
  /\ profiles = <<>>
  /\ build_states = <<>>
  /\ NoCalls

NextRace ==
  \E w \in Workers :
    \/ WkExists(w)
    \/ WkVersionInfo(w)
    \/ WkSaveJson(w)
    \/ WkFetch(w)
    \/ WkClientDone(w)

SpecRace == InitRace /\ [][NextRace]_vars

\* ------------------------------------------------------------ SpecEdges
\* Calls of set_build_state and clear_build_state, one after another, with
\* every BuildStatus a caller can pass.
EdgeProgress == {0, 100}

\* set_build_state(build_name, status, progress), lines 873-879
SetBuildState(build_name, status, progress) ==
  /\ build_states' = set_build_state(build_states, build_name, status, progress, "")
  /\ UNCHANGED <<StatesRest, lockVars>>

\* clear_build_state(build_name), lines 889-892
ClearBuildState(build_name) ==
  /\ build_states' = clear_build_state(build_states, build_name)
  /\ UNCHANGED <<StatesRest, lockVars>>

InitEdges == InitStates

NextEdges ==
  \/ \E n \in BuildNames, st \in BuildStatus, p \in EdgeProgress : SetBuildState(n, st, p)
  \/ \E n \in BuildNames : ClearBuildState(n)

SpecEdges == InitEdges /\ [][NextEdges]_vars

\* ----------------------------------------------------------- SpecLaunch
\* The path of the k-th library of the document is k; the client jar:
JarPath == 0

RECURSIVE LaunchRulesLoop(_, _, _)
\* InstallationsTab._is_library_needed, lines 853-891: the loop over the
\* rules, returning at the first rule that has a name (or else an arch)
\* and an action of allow or disallow
LaunchRulesLoop(rules, current_os, current_arch) ==
  IF rules = <<>> THEN TRUE
  ELSE LET rule == Head(rules)
           action == IF rule.action = NoKey THEN "allow" ELSE rule.action
       IN IF rule.name # NoKey /\ action = "allow" THEN rule.name = current_os
          ELSE IF rule.name # NoKey /\ action = "disallow" THEN rule.name # current_os
          ELSE IF rule.arch # NoKey /\ action = "allow" THEN current_arch = rule.arch
          ELSE IF rule.arch # NoKey /\ action = "disallow" THEN current_arch # rule.arch
          ELSE LaunchRulesLoop(Tail(rules), current_os, current_arch)

\* InstallationsTab._is_library_needed, lines 845-851
launch_is_library_needed(library, current_os, current_arch) ==
  IF ~library.has_rules \/ library.rules = <<>> THEN TRUE
  ELSE LaunchRulesLoop(library.rules, current_os, current_arch)

\* (mutant) the path is put in front
Appended_front(libraries, lib_path) == <<lib_path>> \o libraries

\* line 1099: libraries.append(str(lib_path))
Appended(libraries, lib_path) == Append(libraries, lib_path)

RECURSIVE CollectLibraries(_, _, _, _, _)
\* lines 1089-1099: the loop over version_json["libraries"]
CollectLibraries(libs, i, libraries, current_os, current_arch) ==
  IF i > Len(libs) THEN libraries
  ELSE CollectLibraries(libs, i + 1,
         IF launch_is_library_needed(libs[i], current_os, current_arch) /\ libs[i].artifact
         THEN Appended(libraries, i) ELSE libraries,
         current_os, current_arch)

RECURSIVE JvmRulesLoop(_, _)
\* lines 1148-1157: every rule is looked at; the last that applies decides.
\* The OS name compared with is the literal "windows".
JvmRulesLoop(rules, allowed) ==
  IF rules = <<>> THEN allowed
  ELSE LET rule == Head(rules)
           no_os == rule.name = NoKey /\ rule.arch = NoKey
           a1 == IF rule.action = "allow" /\ (no_os \/ rule.name = "windows")
                 THEN TRUE ELSE allowed
           a2 == IF rule.action = "disallow" /\ rule.name = "windows" THEN FALSE ELSE a1
       IN JvmRulesLoop(Tail(rules), a2)

\* lines 1144-1157
JvmAllowed(item) ==
  IF item.has_rules /\ item.rules # <<>> THEN JvmRulesLoop(item.rules, FALSE) ELSE TRUE

\* lines 1141-1163: the values (the k-th entry's value is k) of the entries
\* let through
CollectJvm(items) ==
  LET Idx == {k \in 1..Len(items) : JvmAllowed(items[k])}
      RECURSIVE Up(_)
      Up(k) == IF k > Len(items) THEN <<>>
               ELSE (IF k \in Idx THEN <<k>> ELSE <<>>) \o Up(k + 1)
  IN Up(1)

\* The game arguments tried: a demo flag, one with a leading blank, one
\* behind a placeholder, a quick play flag, its placeholder value, an empty
\* and a blank string, and another flag.
GameTokens == {"--demo", " --demo", "${x}--demo", "--quickPlayPath",
               "${quickPlayPath}", "", " ", "--width"}

\* str.strip()
Strip(arg) == IF arg = " --demo" THEN "--demo" ELSE IF arg = " " THEN "" ELSE arg

\* safe_format, lines 1166-1172: "${" becomes "{" and format_map fills a
\* key that args does not have with ''
safe_format(arg) ==
  IF arg = "${x}--demo" THEN "--demo"
  ELSE IF arg = "${quickPlayPath}" THEN ""
  ELSE arg

\* arg.startswith("--demo") and arg.startswith("--quickPlay")
StartsWithDemo(arg) == arg = "--demo"
StartsWithQuickPlay(arg) == arg = "--quickPlayPath"

RECURSIVE QuickPlayLoop(_, _, _, _)
\* lines 1199-1214
QuickPlayLoop(game_args, i, skip_next, filtered_game_args) ==
  IF i > Len(game_args) THEN filtered_game_args
  ELSE IF skip_next THEN QuickPlayLoop(game_args, i + 1, FALSE, filtered_game_args)
  ELSE IF /\ StartsWithQuickPlay(game_args[i])
          /\ i + 1 <= Len(game_args)
          /\ Strip(game_args[i + 1]) = ""
       THEN QuickPlayLoop(game_args, i + 1, TRUE, filtered_game_args)
       ELSE QuickPlayLoop(game_args, i + 1, FALSE,
                          Append(filtered_game_args, game_args[i]))

\* lines 1175-1216: the demo filter, then safe_format, then the quick play
\* filter (the entries tried are plain strings)
CollectGame(game) ==
  LET no_demo == SelectSeq(game, LAMBDA arg : ~StartsWithDemo(Strip(arg)))
      formatted == [i \in 1..Len(no_demo) |-> safe_format(no_demo[i])]
  IN QuickPlayLoop(formatted, 1, FALSE, <<>>)

\* launch_selected_build, lines 1070-1216
Launch ==
  /\ lch.pc = "called"
  /\ lch' = [lch EXCEPT
       !.pc = "done",
       !.classpath = CollectLibraries(lch.libraries, 1, <<>>, lch.current_os,
                                      lch.current_arch) \o <<JarPath>>,
       !.jvm_args = CollectJvm(lch.jvm),
       !.game_args = CollectGame(lch.game)]
  /\ UNCHANGED <<transportVars, multiVars, cfg, bld, dirs, profiles, build_states,
                 callVars, lockVars, dlt, cthr, wk, lp>>

\* the rules of the document samples: one rule with an action and an OS name
SampleRules == {r \in RuleSet : r.action \in {"allow", "disallow"} /\ r.name # NoKey
                                /\ r.arch = NoKey}
SampleLibs == {[has_rules |-> FALSE, rules |-> <<>>, artifact |-> a] : a \in BOOLEAN} \cup
              {[has_rules |-> TRUE, rules |-> <<r>>, artifact |-> a] :
                 r \in SampleRules, a \in BOOLEAN}
\* an entry without a "rules" key, or with any list of up to MaxRules rules
\* (an architecture named in a rule is x86; the machine is x86 or amd64)
LaunchRuleLists ==
  UNION {[1..n -> {r \in RuleSet : r.arch # "amd64"}] : n \in 0..MaxRules}
AnyRules == {[has_rules |-> FALSE, rules |-> <<>>, artifact |-> TRUE]} \cup
            {[has_rules |-> TRUE, rules |-> rs, artifact |-> TRUE] : rs \in LaunchRuleLists}

\* One launch of a build whose version JSON holds: up to MaxLibs sample
\* libraries; or one library with any rule list; or one conditional JVM
\* argument with any rule list; or up to MaxArgs game arguments.
InitLaunch ==
  /\ now = 0
  /\ body = [u \in Urls |-> <<1>>]
  /\ cache = [k \in Urls |-> NoEntry]
  /\ fs = [p \in Paths |-> NoFile]
  /\ dfs = [t \in Threads |-> IdleFrame]
  /\ files = <<>>
  /\ cbs = NoCallbacks
  /\ max_workers = default_download_threads
  /\ fut = [i \in Items |-> "none"]
  /\ mf = IdleMulti
  /\ NoBuild
  /\ config = NoSettings
  /\ lib = IdleLib
  /\ cop = IdleOp
  /\ state_lock = None
  /\ thr = [t \in StateThreads |-> IdleThread]
  /\ committed = <<>>
  /\ dlt = IdleDelete
  /\ cthr = [t \in CacheThreads |-> IdleCacheThread]
  /\ wk = [w \in Workers |-> IdleWorker]
  /\ lp = IdleProfiles
  /\ \E o \in OsNames, a \in Arches :
       \/ \E n \in 0..MaxLibs : \E ls \in [1..n -> SampleLibs] :
            lch = [IdleLaunch EXCEPT !.pc = "called", !.current_os = o,
                                     !.current_arch = a, !.libraries = ls]
       \/ \E l \in AnyRules :
            lch = [IdleLaunch EXCEPT !.pc = "called", !.current_os = o,
                                     !.current_arch = a, !.libraries = <<l>>]
       \/ \E l \in AnyRules :
            /\ a = "x86"
            /\ lch = [IdleLaunch EXCEPT !.pc = "called", !.current_os = o,
                                        !.current_arch = a, !.jvm = <<l>>]
       \/ \E n \in 0..MaxArgs : \E g \in [1..n -> GameTokens] :
            /\ o = "windows" /\ a = "x86"
            /\ lch = [IdleLaunch EXCEPT !.pc = "called", !.current_os = o,
                                        !.current_arch = a, !.game = g]

NextLaunch == Launch

SpecLaunch == InitLaunch /\ [][NextLaunch]_vars

\* --------------------------------------------------------- SpecProfiles
\* MaxThreads build workers, each at the end of a create_build call with a
\* build name of its own, writing its profile into launcher_profiles.json
\* (create_build lines 140-163, _create_launch_profile lines 685-714).
\* Nothing serializes the calls.
profile_name(w) == <<"Build", w>>
OldProfile == <<"Old", 0>>

ProfilesRest == <<transportVars, multiVars, cfg, bld, dirs, profiles, build_states,
                  callVars, lockVars, dlt, cthr, wk, lch>>

\* lines 701, 704-705: profiles_file.exists(); without the file the
\* worker starts from {"profiles": {}}
LpExists(w) ==
  /\ lp.thr[w].pc = "idle"
  /\ lp' = IF lp.file.exists
           THEN [lp EXCEPT !.thr[w].pc = "exists"]
           ELSE [lp EXCEPT !.thr[w].pc = "read", !.thr[w].profiles = {}]
  /\ UNCHANGED ProfilesRest

\* lines 702-703: the file is read; json.load raises on a file it cannot
\* parse, line 713 swallows that and create_build goes on to return True
LpRead(w) ==
  /\ lp.thr[w].pc = "exists"
  /\ lp' = IF lp.file.parsable
           THEN [lp EXCEPT !.thr[w].pc = "read", !.thr[w].profiles = lp.file.names]
           ELSE [lp EXCEPT !.thr[w].pc = "returned", !.thr[w].result = TRUE]
  /\ UNCHANGED ProfilesRest

\* lines 707-708: the entry is put into what was read
LpPut(w) ==
  /\ lp.thr[w].pc = "read"
  /\ lp' = [lp EXCEPT !.thr[w].pc = "put",
                      !.thr[w].profiles = @ \cup {profile_name(w)}]
  /\ UNCHANGED ProfilesRest

\* line 710: the file is opened for writing, which empties it
LpOpen(w) ==
  /\ lp.thr[w].pc = "put"
  /\ lp' = [lp EXCEPT !.file = [exists |-> TRUE, parsable |-> FALSE, names |-> {}],
                      !.thr[w].pc = "open"]
  /\ UNCHANGED ProfilesRest

\* lines 710-711: json.dump and close. The bytes go to the start of the
\* file; if another worker wrote while this one had the file open, what
\* is left is this document or this document followed by the tail of the
\* other, longer one.
LpDump(w) ==
  /\ lp.thr[w].pc = "open"
  /\ \E clean \in (IF lp.thr[w].overlapped THEN BOOLEAN ELSE {TRUE}) :
       lp' = [file |-> [exists |-> TRUE, parsable |-> clean,
                        names |-> IF clean THEN lp.thr[w].profiles ELSE {}],
              thr |-> [u \in Workers |->
                         IF u = w
                         THEN [lp.thr[u] EXCEPT !.pc = "returned", !.result = TRUE]
                         ELSE IF lp.thr[u].pc = "open"
                         THEN [lp.thr[u] EXCEPT !.overlapped = TRUE]
                         ELSE lp.thr[u]]]
  /\ UNCHANGED ProfilesRest

\* The workers start with no profiles file, or with one holding no
\* profile, or with one holding the profile of an older build.
InitProfiles ==
  /\ now = 0
  /\ body = [u \in Urls |-> <<1>>]
  /\ cache = [k \in Urls |-> NoEntry]
  /\ fs = [p \in Paths |-> NoFile]
  /\ dfs = [t \in Threads |-> IdleFrame]
  /\ files = <<>>
  /\ cbs = NoCallbacks
  /\ max_workers = default_download_threads
  /\ fut = [i \in Items |-> "none"]
  /\ mf = IdleMulti
  /\ NoBuild
  /\ config = NoSettings
  /\ lib = IdleLib
  /\ cop = IdleOp
  /\ state_lock = None
  /\ thr = [t \in StateThreads |-> IdleThread]
  /\ committed = <<>>
  /\ lch = IdleLaunch
  /\ dlt = IdleDelete
  /\ cthr = [t \in CacheThreads |-> IdleCacheThread]
  /\ wk = [w \in Workers |-> IdleWorker]
  /\ \E f \in {NoProfilesFile,
                [exists |-> TRUE, parsable |-> TRUE, names |-> {}],
                [exists |-> TRUE, parsable |-> TRUE, names |-> {OldProfile}]} :
       lp = [IdleProfiles EXCEPT !.file = f]

NextProfiles ==
  \E w \in Workers :
    \/ LpExists(w)
    \/ LpRead(w)
    \/ LpPut(w)
    \/ LpOpen(w)
    \/ LpDump(w)

SpecProfiles == InitProfiles /\ [][NextProfiles]_vars

\* ------------------------------------------------- claims: Transport
Gets(tr) == SelectSeq(tr, LAMBDA e : e.ev = "get")
Waits(tr) == SelectSeq(tr, LAMBDA e : e.ev = "sleep")

\* request, sleep of retry_delay seconds, request, ... , request
Alternates(tr) ==
  /\ Len(tr) % 2 = 1
  /\ \A i \in 1..Len(tr) :
       IF i % 2 = 1 THEN tr[i].ev = "get" ELSE tr[i] = SleepEvent(retry_delay)

\* C4: a download_file_sync call that took no cache short cut and has
\* returned made its requests one after another with one sleep of 3 seconds
\* between two consecutive requests and none after the last; every request
\* but the last failed; it returned failure exactly when the last request
\* failed too, and then it made exactly 3 requests (and 2 sleeps); when it
\* returned success the k-th request was the first to succeed and exactly k
\* <= 3 requests were made.
C4_RetryBudget ==
  LET f == dfs[Caller]
      g == Gets(f.trace)
  IN (f.pc = "returned" /\ ~f.hit) =>
       /\ Alternates(f.trace)
       /\ Len(g) \in 1..max_retries
       /\ Len(Waits(f.trace)) = Len(g) - 1
       /\ \A i \in 1..(Len(g) - 1) : ~g[i].ok
       /\ f.result = g[Len(g)].ok
       /\ ~f.result => (Len(g) = 3 /\ Len(Waits(f.trace)) = 2)

C4_Witness ==
  LET f == dfs[Caller] IN
  /\ f.pc = "returned" /\ ~f.hit /\ ~f.result
  /\ Len(Gets(f.trace)) = 3
  /\ \A i \in 1..Len(f.trace) : ~f.trace[i].ok \/ f.trace[i].ev = "sleep"

C6_CacheHitNoNetwork ==
  LET f == dfs[Caller] IN
  (f.use_cache /\ f.had) =>
    /\ Gets(f.trace) = <<>>
    /\ f.pc = "returned" =>
         /\ f.result
         /\ fs[f.dest] = File(f.had_data)
         /\ f.has_cb => f.progress = <<100>>

\* ----------------------------------- claims: download_multiple_files
FetchOk(i) == dfs[i].result
Failed == {i \in 1..total_files : ~FetchOk(i)}
DistinctDests == \A i, j \in 1..total_files : i # j => files[i].dest # files[j].dest
NoneBefore == \A i \in 1..total_files : ~dfs[i].pre
Exited == mf.pc \in {"returned", "raised"}

\* C7: download_multiple_files returns True if and only if the fetch of
\* every pair succeeded; for an empty list it returns True and submits
\* nothing.
C7_TrueIffAllSucceeded ==
  mf.pc = "returned" =>
    /\ mf.result <=> (\A i \in 1..total_files : FetchOk(i))
    /\ files = <<>> => (mf.result /\ Submitted = {})

C9_ProgressOncePerItem ==
  (mf.pc = "returned" /\ cbs.progress # "none") =>
    mf.calls = [j \in 1..total_files |-> [current |-> j, total |-> total_files]]

\* C10: when download_multiple_files is over, by a return or by an
\* exception of a callback, no submitted fetch is queued or running: each
\* has run to its end.
C10_DrainedAtExit ==
  Exited => (Pending = {} /\ InFlight = {} /\ \A i \in Submitted : Finished(i))

C10_Witness ==
  /\ mf.pc = "raised" /\ cbs.log = "raises"
  /\ total_files = 2 /\ mf.done # Submitted
  /\ Failed # {}
  /\ \A i \in Submitted : Finished(i)


\* ---------------------------------------------------- claims: BuildManager
BuildOver == bld.pc = "returned"

\* C1: a create_build call made with the config of a call that returned
\* True, while every target file of that build is on disk, requests nothing
\* from the network and returns True, whatever the loader family.
C1_IdempotentReentry ==
  (BuildOver /\ bld.reentry) => (bld.result /\ bld.requested = {})

\* C2: after a Vanilla create_build call whose version the manifest lists
\* and whose fetches all succeeded has returned True, get_build_state of the
\* build reports the status ready.
C2_VanillaReady ==
  (BuildOver /\ bld.result /\ cfg.loader = "Vanilla" /\ cfg.in_manifest /\ TargetsExist)
    => get_build_state(build_states, cfg.name).status = "ready"

\* C3: after a create_build call has returned because the installation of
\* its non-Vanilla loader failed, get_build_state of the build reports the
\* status error with progress -1.
C3_LoaderFailureError ==
  (BuildOver /\ bld.failed_at = "loader") =>
    /\ get_build_state(build_states, cfg.name).status = "error"
    /\ get_build_state(build_states, cfg.name).progress = -1

\* C12: when versions/<id> exists, _download_minecraft_version succeeds at
\* once: create_build moves on to the loader, no download_file_sync call is
\* made, nothing is requested, and no file, directory or cache entry changes.
C12_ExistsShortCircuit ==
  [][(bld.pc = "base" /\ VersionDir \in dirs) =>
       /\ bld'.pc = "loader"
       /\ bld'.requested = bld.requested
       /\ UNCHANGED <<fs, dirs, cache, dfs, files, fut, mf>>]_vars

C12_Witness ==
  /\ bld.calls = 2
  /\ bld.pc = "loader"
  /\ VersionDir \in dirs
  /\ bld.requested = {}

\* the manifest fetch failed or the manifest does not list the id, or the
\* fetch of the version's document failed
ResolutionFails ==
  \/ bld.pc = "manifest" /\ FetchOver /\ (~dfs[Caller].result \/ ~cfg.in_manifest)
  \/ bld.pc = "version_info" /\ FetchOver /\ ~dfs[Caller].result

\* C13: when the manifest fetch fails, the id is not in the manifest or the
\* fetch of the version's document fails, create_build returns False as its
\* next step, starting no other fetch; and for an id the manifest does not
\* list, the version's document is never fetched.
C13_ResolutionFailureTerminal ==
  /\ [][ResolutionFails =>
          /\ bld'.pc = "returned"
          /\ ~bld'.result
          /\ UNCHANGED <<fs, dirs, cache, dfs, files, fut, mf>>]_vars
  /\ [](~cfg.in_manifest => dfs[Caller].url # "version_json")

C13_Witness ==
  /\ BuildOver
  /\ ~bld.result
  /\ ~cfg.in_manifest
  /\ dfs[Caller].url = "manifest"
  /\ dfs[Caller].result

\* ------------------------------------------------------- claims: pool
\* C11: while a download_multiple_files call runs, the fetches in flight
\* are never more than the pool size, and the pool size is the
\* download_threads value of the configuration in use (8 when it sets none).
C11_PoolAsConfigured ==
  mf.pc \in {"start", "loop"} =>
    /\ Cardinality(InFlight) <= max_workers
    /\ max_workers = ConfiguredThreads(TRUE)

\* ------------------------------------------------------ claims: rules
Evaluated == lib.pc = "done"
Decisive(rule) == Action(rule) \in {"allow", "disallow"}
\* a rule that can trigger no decision: no OS name and no architecture, or
\* an action that is neither allow nor disallow
Silent(rule) == ~Decisive(rule) \/ (rule.name = NoKey /\ rule.arch = NoKey)
\* allow on the same OS and disallow on another give needed
OsDecision(rule, current_os) == (Action(rule) = "allow") <=> (rule.name = current_os)
ArchDecision(rule, current_arch) == (Action(rule) = "allow") <=> (rule.arch = current_arch)
Loud(rs) == {i \in 1..Len(rs) : ~Silent(rs[i])}
FirstLoud(rs) == CHOOSE i \in Loud(rs) : \A j \in Loud(rs) : i <= j

\* C14: _is_library_needed returns needed for an absent or empty rule list
\* and for a list none of whose rules triggers a decision; when the first
\* rule to trigger one names an OS, the result is needed exactly for allow on
\* that OS and for disallow on another OS.
C14_RuleTable ==
  Evaluated =>
    LET rs == Rules(lib)
    IN /\ rs = <<>> => lib.result
       /\ Loud(rs) = {} => lib.result
       /\ (Loud(rs) # {} /\ rs[FirstLoud(rs)].name # NoKey) =>
            lib.result = OsDecision(rs[FirstLoud(rs)], lib.current_os)

C14_Witness ==
  /\ Evaluated
  /\ lib.current_os = "linux"
  /\ lib.rules = <<[action |-> "allow", name |-> "windows", arch |-> NoKey]>>
  /\ ~lib.result

\* the rules that name the current OS, no architecture, and allow or disallow
Applicable(rs, current_os) ==
  {i \in 1..Len(rs) : Decisive(rs[i]) /\ rs[i].name = current_os /\ rs[i].arch = NoKey}

\* C15: when every rule of a list of several applies to the current OS, the
\* result is the decision of the last of them.
C15_LastDecisionStands ==
  LET rs == Rules(lib)
  IN (Evaluated /\ Len(rs) >= 2 /\ Applicable(rs, lib.current_os) = 1..Len(rs)) =>
       lib.result = OsDecision(rs[Len(rs)], lib.current_os)

\* C16: on the OS and architecture of the machine there is a single rule
\* with an OS name and an architecture whose two keys decide differently
\* and for which the result of _is_library_needed is the decision of the
\* architecture.
C16_ArchDecides ==
  \E rule \in RuleSet :
    /\ Decisive(rule) /\ rule.name # NoKey /\ rule.arch # NoKey
    /\ ArchDecision(rule, lib.current_arch) # OsDecision(rule, lib.current_os)
    /\ is_library_needed([has_rules |-> TRUE, rules |-> <<rule>>],
                         lib.current_os, lib.current_arch)
         = ArchDecision(rule, lib.current_arch)

\* ------------------------------------------------------ claims: cache
Lookup == cop.op \in {"has", "get"}
\* the age of the key's cache file at the lookup
Age == cop.at - cop.pre.mtime
\* the TTL a lookup asks for: the default when none is given
Asked(ttl) == IF ttl = None THEN default_ttl ELSE ttl

\* C17: has(k, ttl=0) on an entry stored some time ago returns false.
C17_ZeroTtlExpires ==
  (cop.op = "has" /\ cop.ttl = 0 /\ cop.pre.exists /\ Age > 0) => ~cop.found

\* the lookup is of the key of the latest set, no clear or cleanup has come
\* since, and its TTL is larger than the time gone by since that set
FreshLookup ==
  /\ Lookup
  /\ cop.set_live
  /\ cop.key = cop.set_key
  /\ Asked(cop.ttl) > cop.at - cop.set_at

Served == IF cop.op = "has" THEN cop.found ELSE cop.ret = File(cop.set_data)

C19_ExpiredNeverServed ==
  (Lookup /\ cop.pre.exists /\ Age > Asked(cop.ttl)) =>
    /\ ~cop.found
    /\ cop.ret = NoFile
    /\ ~cache[key_to_path(cop.key)].exists

\* ------------------------------------------------ claims: state table
InsideLock == {t \in StateThreads : thr[t].pc \in {"locked", "leaving"}}

\* C20: at most one thread is inside the lock; a get_build_state that has
\* read returns the state the last completed set_build_state left for its
\* name, or (unknown, 0, "") when there is none or a clear_build_state came
\* after it; and the state of a name changes only in a step of a
\* set_build_state or clear_build_state for that name.
C20_TableSerialized ==
  /\ [](Cardinality(InsideLock) <= 1)
  /\ [](\A t \in StateThreads :
          (thr[t].pc = "leaving" /\ thr[t].op = "get") =>
             thr[t].ret = get_build_state(committed, thr[t].name))
  /\ [][\A name \in BuildNames :
          get_build_state(build_states', name) # get_build_state(build_states, name) =>
            \E t \in StateThreads :
              /\ thr[t].pc = "locked"
              /\ thr[t].name = name
              /\ thr[t].op \in {"set", "clear"}]_vars

C20_Witness ==
  \E t, u \in StateThreads :
    /\ thr[t].pc = "leaving" /\ thr[t].op = "get" /\ thr[t].name = "Demo"
    /\ thr[t].ret.status = "error"
    /\ get_build_state(build_states, "Other").status = "downloading"
    /\ thr[u].pc = "entering" /\ thr[u].op = "set" /\ thr[u].name = "Demo"

\* ------------------------------------------ claims: create_build outcomes
\* C22: whenever create_build has returned failure to a caller that gave
\* a progress callback, the callback has been given the -1 sentinel during
\* the call.
C22_FailureReportsSentinel ==
  (BuildOver /\ ~bld.result /\ cfg.has_cb) => -1 \in bld.reported

\* C23: create_build never lets an exception out to its caller, whatever
\* the callbacks do.
C23_NeverRaises == bld.pc # "raised"

\* C24: a create_build call in which the fetch of the client jar, of a
\* needed library, of the asset index or of an asset object came back
\* failed returns False.
C24_FailedFetchFailsBuild ==
  (BuildOver /\ bld.failed \cap {"client", "lib", "asset_index", "asset"} # {})
    => ~bld.result

\* C25: a create_build call in which the write of the launcher profile or
\* of instance.cfg failed returns False.
C25_WriteFailureFatal == (BuildOver /\ bld.write_failed) => ~bld.result

LoaderPcs == {"loader", "loader_profile", "loader_libs", "installer"}
BaseFiles == {"version_json", "lib", "client_jar", "asset_index", "asset"}
\* the loader installer has come back False and create_build is about to
\* look at its result
LoaderFails ==
  \/ bld.pc \in {"loader_profile", "installer"} /\ FetchOver /\ ~dfs[Caller].result
  \/ bld.pc = "loader_libs" /\ FetchAllOver /\ ~mf.result

\* C26: when the loader installer fails, the next step of create_build is
\* to return False; no step of a call before its final one writes the
\* launcher profile entry or instance.cfg, and no step of the loader phase
\* changes a file of the base-version step.
C26_LoaderFailureAborts ==
  [][/\ LoaderFails =>
          /\ bld'.pc = "returned" /\ ~bld'.result /\ bld'.failed_at = "loader"
          /\ fs' = fs /\ profiles' = profiles /\ dirs' = dirs
     /\ bld.pc # "finish" =>
          profiles' = profiles /\ fs'["instance_cfg"] = fs["instance_cfg"]
     /\ bld.pc \in LoaderPcs => \A p \in BaseFiles : fs'[p] = fs[p]]_vars

\* a first call has failed in the loader installer with the client jar of
\* the base version on disk, and there is no profile entry and no
\* instance.cfg
C26_Witness ==
  /\ BuildOver /\ bld.calls = 1 /\ bld.failed_at = "loader" /\ ~bld.result
  /\ fs["client_jar"].exists /\ fs["version_json"].exists
  /\ cfg.name \notin DOMAIN profiles
  /\ ~fs["instance_cfg"].exists

\* C27: a build with a non-vanilla loader requests neither the base
\* version's libraries nor its asset index nor its asset objects.
C27_LibsAssetsOnlyVanilla ==
  cfg.loader # "Vanilla" => bld.requested \cap {"lib", "asset_index", "asset"} = {}

\* the profile of the loader is on disk in its version directory
ProfilePersisted ==
  fs["loader_profile"].exists /\ LoaderDir(cfg.loader) \in dirs
ProfileLibraryNeeded == is_library_needed(cfg.profile_library, BuildOs, BuildArch)
ProfileLibrarySubmitted == \E i \in 1..Len(files) : files[i].url = "loader_lib"

\* C35: a Fabric or Quilt install has succeeded only with the loader
\* profile persisted in versions/<family>-loader-<lv>-<mc> and with the
\* needed profile library on disk; the profile is persisted before the
\* library list is handed to the downloader; a library the evaluator
\* reports as not needed is never handed over nor requested.
C35_ProfileThenNeededLibraries ==
  cfg.loader \in ProfileLoaders =>
    /\ bld.pc = "finish" =>
         /\ ProfilePersisted
         /\ ProfileLibraryNeeded => fs["loader_lib"].exists
    /\ ProfileLibrarySubmitted => ProfilePersisted
    /\ ~ProfileLibraryNeeded =>
         /\ ~ProfileLibrarySubmitted
         /\ "loader_lib" \notin bld.requested
         /\ ~fs["loader_lib"].exists

\* the Fabric installer of a first call has succeeded after fetching the
\* needed profile library
C35_Witness ==
  /\ cfg.loader = "Fabric" /\ bld.pc = "finish" /\ bld.calls = 1
  /\ ProfileLibraryNeeded /\ ProfileLibrarySubmitted
  /\ "loader_lib" \in bld.requested
  /\ ProfilePersisted /\ fs["loader_lib"].exists

\* C36: whenever a create_build call returns True, after any calls before
\* it, the version JSON and the client jar of the game version are on disk.
C36_SuccessHasJsonAndJar ==
  (BuildOver /\ bld.result) =>
    (fs["version_json"].exists /\ fs["client_jar"].exists)

\* C39: after a create_build call that returned True and wrote its
\* profile, the lastVersionId of the profile names a version directory on
\* disk, for Fabric and Quilt the one the loader profile was saved in.
C39_VersionIdNamesDirectory ==
  (BuildOver /\ bld.result /\ ~bld.write_failed /\ cfg.name \in DOMAIN profiles) =>
    /\ profiles[cfg.name] \in dirs
    /\ cfg.loader \in ProfileLoaders => profiles[cfg.name] = LoaderDir(cfg.loader)

\* ----------------------------------------------------- claims: delete
\* C21: after delete_build(name) has returned, the instance directory of
\* the build does not exist and get_build_state(name) reports unknown.
C21_DeletedIsGone ==
  dlt.pc = "returned" =>
    /\ InstanceDir(dlt.build_name) \notin dirs
    /\ get_build_state(build_states, dlt.build_name).status = "unknown"

\* ------------------------------------------------- claims: cache race
\* the bytes of the set calls made, and of the set that left the file found
\* at the start
CompleteBlobs ==
  {InitialBlob} \cup {cthr[u].data : u \in {v \in CacheThreads : cthr[v].op = "set"}}

\* C28: under every interleaving, a get that has returned has returned
\* absent or the complete bytes of one set call, and no get ends in an
\* exception.
C28_NoTornRead ==
  \A t \in CacheThreads :
    /\ cthr[t].pc # "raised"
    /\ (cthr[t].op = "get" /\ cthr[t].pc = "done" /\ cthr[t].ret.exists)
         => cthr[t].ret.data \in CompleteBlobs

\* ------------------------------------------------- claims: build race
\* the worker is inside download_file_sync for the client jar
Downloading(w) == wk[w].pc = "client" /\ dfs[w].pc # "returned"

\* C29: of the workers that need the same version, at most one writes
\* each target file, and no two are downloading the client jar at the same
\* time.
C29_AtMostOncePerTarget ==
  /\ \A p \in RaceFiles : Cardinality({w \in Workers : p \in wk[w].written}) <= 1
  /\ Cardinality({w \in Workers : Downloading(w)}) <= 1

\* ----------------------------------------------- claims: state machine
\* the edges of the build lifecycle: unknown -> downloading -> installing
\* -> ready, error from any non-terminal state, a fresh create_build from
\* ready or error, and a delete from anywhere
AllowedEdge(a, b) ==
  \/ a = b
  \/ a = "unknown" /\ b = "downloading"
  \/ a = "downloading" /\ b = "installing"
  \/ a = "installing" /\ b = "ready"
  \/ a \in {"unknown", "downloading", "installing"} /\ b = "error"
  \/ a \in {"ready", "error"} /\ b = "downloading"
  \/ b = "unknown"

\* C30: every change of a build's status in the state table follows an
\* allowed edge.
C30_OnlyAllowedEdges ==
  [][\A name \in BuildNames :
       AllowedEdge(get_build_state(build_states, name).status,
                   get_build_state(build_states', name).status)]_vars

\* ------------------------------------------------------ claims: launch
Launched == lch.pc = "done"
\* the install-time evaluator on the k-th library of the launch
InstallNeeded(k) ==
  is_library_needed(lch.libraries[k], lch.current_os, lch.current_arch)
OnClasspath(k) == InstallNeeded(k) /\ lch.libraries[k].artifact

\* C31: the classpath ends with the client jar; before it stand the paths
\* of exactly the libraries that the install-time evaluator reports needed
\* and that declare an artifact, each once and in document order; and the
\* launch-time evaluator agrees with the install-time one on every library.
C31_ClasspathNeededInOrder ==
  Launched =>
    LET cp == lch.classpath
        n == Len(cp)
    IN /\ n >= 1 /\ cp[n] = JarPath
       /\ \A i \in 1..(n - 1) : cp[i] \in 1..Len(lch.libraries) /\ OnClasspath(cp[i])
       /\ \A k \in 1..Len(lch.libraries) :
            OnClasspath(k) => \E i \in 1..(n - 1) : cp[i] = k
       /\ \A i, j \in 1..(n - 1) : i < j => cp[i] < cp[j]
       /\ \A k \in 1..Len(lch.libraries) :
            launch_is_library_needed(lch.libraries[k], lch.current_os,
                                     lch.current_arch) = InstallNeeded(k)

\* of two libraries with artifacts the first was not needed and the
\* second was
C31_Witness ==
  /\ Launched
  /\ Len(lch.libraries) = 2
  /\ lch.libraries[1].artifact /\ ~InstallNeeded(1)
  /\ OnClasspath(2)
  /\ lch.classpath = <<2, JarPath>>

\* C32: the assembled game arguments hold no argument beginning with
\* --demo and no --quickPlay flag immediately followed by an empty or
\* blank value.
C32_NoDemoNoEmptyQuickPlay ==
  Launched =>
    LET out == lch.game_args
    IN /\ \A i \in 1..Len(out) : ~StartsWithDemo(out[i])
       /\ \A i \in 1..(Len(out) - 1) :
            ~(StartsWithQuickPlay(out[i]) /\ Strip(out[i + 1]) = "")

\* C33: a conditional JVM argument is included exactly when
\* _is_library_needed reports needed for its rule list on the current OS.
C33_JvmFilteredAsLibraries ==
  Launched =>
    \A k \in 1..Len(lch.jvm) :
      (\E i \in 1..Len(lch.jvm_args) : lch.jvm_args[i] = k)
        <=> is_library_needed(lch.jvm[k], lch.current_os, lch.current_arch)


\* ---------------------------------------------------- claims: progress
\* C34: every percent a download_file_sync call passes to its progress
\* callback is an integer from -1 to 100, and -1 is passed only by a call
\* that returns False.
C34_PercentInRange ==
  \A t \in DOMAIN dfs :
    \A i \in 1..Len(dfs[t].progress) :
      /\ dfs[t].progress[i] \in -1..100
      /\ (dfs[t].progress[i] = -1 /\ dfs[t].pc = "returned") => ~dfs[t].result

\* ------------------------------------------------------ claims: cache keys
\* C37: set(k1, b) changes neither get(k2) nor has(k2) for any other key
\* k2, whatever the TTL asked for: two keys never share a cache entry.
C37_KeysApart ==
  [][(cop'.op = "set" /\ cop'.n # cop.n) =>
       \A k2 \in Keys \ {cop'.key} : \A ttl \in Ttls :
         /\ CacheGet(cache', key_to_path(k2), ttl, now)
              = CacheGet(cache, key_to_path(k2), ttl, now)
         /\ CacheHas(cache', key_to_path(k2), ttl, now)
              = CacheHas(cache, key_to_path(k2), ttl, now)]_vars

\* ------------------------------------------------------ claims: build names
\* C40: delete_build(name), for a name that no build state is recorded
\* under, removes the instance directory of no build recorded under
\* another name: distinct build names do not share an instance directory.
C40_NamesApart ==
  [][(dlt'.pc = "returned" /\ dlt'.build_name \notin DOMAIN build_states) =>
       \A n \in DOMAIN build_states :
         InstanceDir(n) \in dirs => InstanceDir(n) \in dirs']_vars

\* ---------------------------------------------------- claims: profiles file
\* C38: once every concurrent create_build call has returned True,
\* launcher_profiles.json parses and holds the profile of each of the
\* builds.
C38_NoProfileLost ==
  (\A w \in Workers : lp.thr[w].pc = "returned" /\ lp.thr[w].result) =>
    /\ lp.file.exists /\ lp.file.parsable
    /\ \A w \in Workers : profile_name(w) \in lp.file.names

====
